---- MODULE Spec2Model ----
(***************************************************************************)
(* Model of the authoritative game server (src/src/server/game.py,         *)
(* src/src/server/entities.py, src/src/constants.py).                      *)
(*                                                                         *)
(* Units.  Times are integer milliseconds (the source uses float seconds), *)
(* player / power-up / object / drop coordinates are integer pixels, and   *)
(* projectile coordinates and distances are integer milli-pixels (MPX per  *)
(* pixel) because sub-stepping produces fractions of a pixel.  Every       *)
(* critical section of the server (one process_message call, one           *)
(* remove_player call, one accept, one pass of the tick loop) is one       *)
(* action: the source runs each of them under self.lock.                   *)
(***************************************************************************)
EXTENDS Integers, Sequences, FiniteSets, TLC

VARIABLES
    players,          \* GameServer.players: ordered dict, a sequence of PlayerState records
    clients,          \* GameServer.clients: the player ids with an open connection
    projectiles,      \* GameServer.projectiles: proj_id -> Projectile
    power_ups,        \* GameServer.power_ups: pu_id -> PowerUp
    dropped_weapons,  \* GameServer.dropped_weapons: drop_id -> DroppedWeapon
    objects,          \* GameServer.objects: obj_id -> BreakableObject
    next_id,          \* GameServer.next_id
    next_proj_id,     \* GameServer.next_proj_id
    next_drop_id,     \* GameServer.next_drop_id
    game_over,        \* GameServer.game_over
    game_started,     \* GameServer.game_started
    team_kills,       \* GameServer.team_kills: ordered dict, a sequence of [team, kills]
    now,              \* time.time(), in ms
    op,               \* the critical section executed last: "accept", "tick", "disconnect" or a message type
    out,              \* the messages that critical section wrote to sockets, in order
    game_over_sent,   \* number of game_over messages broadcast so far in the run
    killed_since,     \* per player id: player_killed broadcasts since its last respawn event
    msgs,             \* client messages dispatched since the match started
    raised,           \* the connections whose reader left its loop by an exception, finally clause pending
    tick_pc,          \* world_broadcast_loop: 0 outside the lock, k in 1..5 before the k-th tick function, 6 before the broadcast
    launch_teams,     \* main.run: num_teams, int(sys.argv[1]) or NUM_TEAMS
    tick_from         \* while world_broadcast_loop holds the lock: the server it found and the random draws of the pass

vars == <<players, clients, projectiles, power_ups, dropped_weapons, objects,
          next_id, next_proj_id, next_drop_id, game_over, game_started,
          team_kills, now, op, out, game_over_sent, killed_since, msgs, raised,
          tick_pc, launch_teams, tick_from>>

-----------------------------------------------------------------------------
(* Bounds of the model *)

\* connections the listening socket hands to accept() in one run
MaxConn == 3
\* iterations of world_broadcast_loop in one run
MaxTicks == 1
\* client messages dispatched after the match has started
MaxMsgs == 2

-----------------------------------------------------------------------------
(* src/src/constants.py *)

MAX_PLAYERS == 6
NUM_TEAMS == 3
TICK_RATE == 20
PLAYER_MAX_HP == 100
\* 3.0 s
RESPAWN_DELAY == 3000
\* 2.0 s
RESPAWN_SHIELD == 2000
PLAYER_W == 8
PLAYER_H == 16
KILL_LIMIT == 15
SHOP_X == 464
SHOP_Y == 256
SHOP_RADIUS == 60
STARTING_COINS == 30
KILL_COIN_REWARD == 15
\* 20.0 s
DROPPED_WEAPON_LIFE == 20000
BREAKABLE_PROJECTILE_DAMAGE == 10
NUM_POWER_UPS == 7
\* 15.0 s
POWER_UP_RESPAWN_TIME == 15000
\* 12.0 s
POWER_UP_LIFETIME == 12000

TEAM_SPAWN_AREAS ==
    [t \in 0..2 |->
        CASE t = 0 -> << <<48, 336>>, <<64, 336>>, <<80, 336>> >>
          [] t = 1 -> << <<896, 336>>, <<880, 336>>, <<864, 336>> >>
          [] t = 2 -> << <<240, 336>>, <<256, 336>>, <<272, 336>> >>]

BREAKABLE_DEFS ==
    << <<"tree", 80, 352>>, <<"tree", 208, 352>>, <<"tree", 768, 352>>,
       <<"tree", 928, 352>>, <<"barrel", 64, 304>>, <<"barrel", 896, 304>>,
       <<"crate", 272, 256>>, <<"crate", 720, 256>>, <<"crate", 288, 208>>,
       <<"crate", 656, 208>>, <<"tree", 112, 160>>, <<"tree", 832, 160>>,
       <<"barrel", 480, 112>>, <<"crate", 128, 64>>, <<"crate", 800, 64>> >>

BREAKABLE_HP == [tree |-> 3, barrel |-> 1, crate |-> 2]

BREAKABLE_COIN_RANGE ==
    [tree |-> <<8, 16>>, barrel |-> <<4, 10>>, crate |-> <<6, 14>>]

\* reload_time in ms; bullet_speed in px per 1/60 s; range_px in px
WEAPONS ==
    [pistol    |-> [damage |-> 20, range_px |-> 240, reload_time |-> 400,
                    bullet_speed |-> 7,  pellets |-> 1, spread |-> 0, price |-> 0],
     auto      |-> [damage |-> 12, range_px |-> 280, reload_time |-> 100,
                    bullet_speed |-> 8,  pellets |-> 1, spread |-> 0, price |-> 50],
     semi_auto |-> [damage |-> 28, range_px |-> 320, reload_time |-> 300,
                    bullet_speed |-> 9,  pellets |-> 1, spread |-> 0, price |-> 60],
     sniper    |-> [damage |-> 70, range_px |-> 800, reload_time |-> 1800,
                    bullet_speed |-> 14, pellets |-> 1, spread |-> 0, price |-> 80],
     shotgun   |-> [damage |-> 18, range_px |-> 130, reload_time |-> 900,
                    bullet_speed |-> 6,  pellets |-> 5, spread |-> 3, price |-> 70]]

WeaponIds == DOMAIN WEAPONS

POWER_UP_TYPES == <<"speed", "jump", "shield", "rapid_fire", "double_jump">>

\* ms
POWER_UP_DURATIONS ==
    [speed |-> 10000, jump |-> 10000, shield |-> 5000,
     rapid_fire |-> 8000, double_jump |-> 10000]

\* interval = 1.0 / TICK_RATE, in ms
TickMs == 1000 \div TICK_RATE

\* milli-pixels per pixel (resolution of projectile coordinates)
MPX == 1000

-----------------------------------------------------------------------------
(* Python helpers *)

Max(a, b) == IF a >= b THEN a ELSE b
Abs(a) == IF a >= 0 THEN a ELSE 0 - a

\* float division n / d of integers, truncated towards zero
Quot(n, d) == IF n >= 0 THEN n \div d ELSE 0 - ((0 - n) \div d)

\* math.ceil(n / d) for n >= 0, d > 0
CeilDiv(n, d) == (n + d - 1) \div d

RECURSIVE SqrtFrom(_, _)
SqrtFrom(n, r) ==
    LET q == (r + n \div r) \div 2
    IN  IF q >= r THEN r ELSE SqrtFrom(n, q)

\* floor of the square root (Newton iteration from above)
ISqrt(n) == IF n <= 0 THEN 0 ELSE SqrtFrom(n, n)

\* math.hypot(a, b), floored to a whole milli-pixel
Hypot(a, b) == IF b = 0 THEN Abs(a) ELSE IF a = 0 THEN Abs(b) ELSE ISqrt(a * a + b * b)

\* the ids of a dict keyed by integers, in insertion (= ascending) order
RECURSIVE SortedSeq(_)
SortedSeq(S) ==
    IF S = {} THEN <<>>
    ELSE CHOOSE r \in {<<m>> \o SortedSeq(S \ {m}) :
                          m \in {x \in S : \A y \in S : x <= y}} : TRUE

\* dict.pop(k, None) on a dict modelled as a function
Drop(f, k) == [x \in (DOMAIN f) \ {k} |-> f[x]]

\* d[k] = v on a dict modelled as a function
Put(f, k, v) == [x \in (DOMAIN f) \cup {k} |-> IF x = k THEN v ELSE f[x]]

-----------------------------------------------------------------------------
(* self.players: an ordered dict player_id -> PlayerState *)

PIdx(ps, pid) ==
    IF \E i \in 1..Len(ps) : ps[i].player_id = pid
    THEN CHOOSE i \in 1..Len(ps) : ps[i].player_id = pid
    ELSE 0

HasP(ps, pid) == PIdx(ps, pid) # 0

GetP(ps, pid) == ps[PIdx(ps, pid)]

\* self.players[pid] = p: a new key is appended, an existing key keeps its place
PutP(ps, pid, p) ==
    IF HasP(ps, pid) THEN [ps EXCEPT ![PIdx(ps, pid)] = p] ELSE Append(ps, p)

\* self.players.pop(pid, None)
PopP(ps, pid) == SelectSeq(ps, LAMBDA p : p.player_id # pid)

Pids(ps) == {ps[i].player_id : i \in 1..Len(ps)}

\* self.team_kills: an ordered dict team_id -> kills
TKIdx(tk, t) ==
    IF \E i \in 1..Len(tk) : tk[i].team = t
    THEN CHOOSE i \in 1..Len(tk) : tk[i].team = t
    ELSE 0

\* self.team_kills.get(t, 0)
TKGet(tk, t) == IF TKIdx(tk, t) = 0 THEN 0 ELSE tk[TKIdx(tk, t)].kills

\* self.team_kills[t] = n
TKPut(tk, t, n) ==
    IF TKIdx(tk, t) = 0 THEN Append(tk, [team |-> t, kills |-> n])
    ELSE [tk EXCEPT ![TKIdx(tk, t)].kills = n]

-----------------------------------------------------------------------------
(* src/src/server/entities.py *)

PlayerState(player_id) ==
    [player_id |-> player_id, team_id |-> -1, x |-> 100, y |-> 100,
     vx |-> 0, vy |-> 0, on_ground |-> FALSE, facing |-> "right",
     alive |-> TRUE, hp |-> PLAYER_MAX_HP, respawn_timer |-> 0,
     ready |-> FALSE, shield_until |-> 0, rapid_fire_until |-> 0,
     weapon |-> "pistol", coins |-> STARTING_COINS, reload_until |-> 0,
     kills |-> 0]

\* x, y, dist in milli-pixels; vx, vy in px per 1/60 s; lifetime in ms
Projectile(proj_id, owner_id, team_id, x, y, vx, vy, lifetime, damage, weapon_id, range_px) ==
    [proj_id |-> proj_id, owner_id |-> owner_id, team_id |-> team_id,
     x |-> x, y |-> y, vx |-> vx, vy |-> vy, lifetime |-> lifetime,
     damage |-> damage, weapon_id |-> weapon_id, range_px |-> range_px,
     dist |-> 0]

PowerUp(pu_id, pu_type, spawn_x, spawn_y, lifetime_timer) ==
    [pu_id |-> pu_id, pu_type |-> pu_type, spawn_x |-> spawn_x,
     spawn_y |-> spawn_y, active |-> TRUE, respawn_timer |-> 0,
     lifetime_timer |-> lifetime_timer]

\* pickup_delay defaults to 0.6 s
DroppedWeapon(drop_id, weapon_id, x, y) ==
    [drop_id |-> drop_id, weapon_id |-> weapon_id, x |-> x, y |-> y,
     lifetime |-> DROPPED_WEAPON_LIFE, pickup_delay |-> 600]

BreakableObject(obj_id, obj_type, x, y, hp) ==
    [obj_id |-> obj_id, obj_type |-> obj_type, x |-> x, y |-> y,
     hp |-> hp, max_hp |-> hp, alive |-> TRUE]

\* _VALID_FLOOR: (x, floor_y) of the floor tiles of the map asset that have two
\* empty tiles above them; the model keeps a sample of them, all multiples of
\* the 16-px tile size.  <<464, 256>> is the shop platform, <<96, 352>> and
\* <<880, 352>> are ground tiles.
VALID_FLOOR == << <<96, 352>>, <<464, 256>>, <<880, 352>> >>

\* _rand_spawn(entity_height) with random.choice returning the f-th floor tile
RandSpawn(f, entity_height) == <<VALID_FLOOR[f][1], VALID_FLOOR[f][2] - entity_height>>

rand_player_pos(f) == RandSpawn(f, PLAYER_H)

rand_powerup_pos(f) == RandSpawn(f, 10)

\* random.uniform(a, b) for the draw u of Draws (u = 0: a, u = 1: b)
Uniform(a, b, u) == a + (b - a) * u

-----------------------------------------------------------------------------
(* The server object as one value: the handlers below are functions on it *)

Server ==
    [players |-> players, clients |-> clients, projectiles |-> projectiles,
     power_ups |-> power_ups, dropped_weapons |-> dropped_weapons,
     objects |-> objects, next_id |-> next_id, next_proj_id |-> next_proj_id,
     next_drop_id |-> next_drop_id, game_over |-> game_over,
     game_started |-> game_started, team_kills |-> team_kills,
     now |-> now, out |-> <<>>]

\* The pseudo-random generator during one critical section: the k-th
\* random.choice over _VALID_FLOOR returns tile (f + k) mod len, the k-th
\* uniform / randint draw returns the lower (0) or upper (1) end of its range.
FloorDraw(rnd, k) == ((rnd.f + k) % Len(VALID_FLOOR)) + 1

UDraw(rnd, k) == (rnd.u + k) % 2

\* GameServer.send_to
send_to(s, pid, msg) ==
    IF pid \in s.clients
    THEN [s EXCEPT !.out = Append(@, msg @@ [to |-> {pid}])]
    ELSE s

\* GameServer.broadcast
broadcast(s, msg) ==
    IF s.clients # {}
    THEN [s EXCEPT !.out = Append(@, msg @@ [to |-> s.clients])]
    ELSE s

\* GameServer._get_lobby_info
get_lobby_info(s) ==
    [type |-> "lobby_update",
     players |-> [i \in 1..Len(s.players) |->
                     [player_id |-> s.players[i].player_id,
                      team_id |-> s.players[i].team_id,
                      ready |-> s.players[i].ready]],
     game_started |-> s.game_started]

\* _check_all_ready that is content with a single player
check_all_ready_alone(s) ==
    IF Len(s.players) < 1 THEN FALSE
    ELSE \A i \in 1..Len(s.players) :
            s.players[i].team_id >= 0 /\ s.players[i].ready

\* GameServer._check_all_ready
check_all_ready(s) ==
    IF Len(s.players) < 2 THEN FALSE
    ELSE \A i \in 1..Len(s.players) :
            s.players[i].team_id >= 0 /\ s.players[i].ready

\* members.index(p) for members = the players of p's team, in dict order
MemberIndex(ps, i) ==
    Cardinality({j \in 1..(i - 1) : ps[j].team_id = ps[i].team_id})

\* TEAM_SPAWN_AREAS.get(team_id, [(100, 100)])
SpawnsOf(team_id) ==
    IF team_id \in DOMAIN TEAM_SPAWN_AREAS THEN TEAM_SPAWN_AREAS[team_id]
    ELSE << <<100, 100>> >>

\* the per-player part of start_game
StartPlayer(s, i) ==
    LET p      == s.players[i]
        spawns == SpawnsOf(p.team_id)
        idx    == MemberIndex(s.players, i) % Len(spawns)
    IN  [p EXCEPT !.x = spawns[idx + 1][1], !.y = spawns[idx + 1][2],
                  !.hp = PLAYER_MAX_HP, !.alive = TRUE,
                  !.shield_until = s.now + RESPAWN_SHIELD,
                  !.weapon = "pistol", !.coins = STARTING_COINS,
                  !.reload_until = 0, !.kills = 0]

\* the teams of start_game, in the iteration order of a set of small ints
StartTeams(ps) == SortedSeq({ps[i].team_id : i \in {j \in 1..Len(ps) : ps[j].team_id >= 0}})

\* the game_start message of start_game to the player at index i
game_start_msg(s, i) ==
    [type |-> "game_start", spawn_x |-> s.players[i].x, spawn_y |-> s.players[i].y,
     shop_x |-> SHOP_X, shop_y |-> SHOP_Y, kill_limit |-> KILL_LIMIT]

RECURSIVE SendGameStart(_, _)
SendGameStart(s, i) ==
    IF i > Len(s.players) THEN s
    ELSE SendGameStart(send_to(s, s.players[i].player_id, game_start_msg(s, i)), i + 1)

\* GameServer.start_game; rnd.shuffle is the outcome of random.shuffle
start_game(s, rnd) ==
    LET teams == StartTeams(s.players)
        s1 == [s EXCEPT
                 !.game_started = TRUE,
                 !.team_kills = [k \in 1..Len(teams) |-> [team |-> teams[k], kills |-> 0]],
                 !.players = [i \in 1..Len(s.players) |-> StartPlayer(s, i)],
                 !.power_ups =
                     [i \in 0..(NUM_POWER_UPS - 1) |->
                        PowerUp(i, rnd.shuffle[(i % Len(rnd.shuffle)) + 1],
                                rand_powerup_pos(FloorDraw(rnd, i))[1],
                                rand_powerup_pos(FloorDraw(rnd, i))[2],
                                (POWER_UP_LIFETIME * i) \div NUM_POWER_UPS
                                    + Uniform(0, 3000, UDraw(rnd, i)))],
                 !.objects =
                     [i \in 0..(Len(BREAKABLE_DEFS) - 1) |->
                        BreakableObject(i, BREAKABLE_DEFS[i + 1][1],
                                        BREAKABLE_DEFS[i + 1][2],
                                        BREAKABLE_DEFS[i + 1][3],
                                        BREAKABLE_HP[BREAKABLE_DEFS[i + 1][1]])]]
    IN  SendGameStart(s1, 1)

-----------------------------------------------------------------------------
(* process_message: lobby messages *)

\* mtype == "join"
msg_join(s, pid) ==
    LET s1 == [s EXCEPT !.players = PutP(@, pid, PlayerState(pid))]
        s2 == send_to(s1, pid, [type |-> "welcome", player_id |-> pid,
                                num_teams |-> NUM_TEAMS, max_hp |-> PLAYER_MAX_HP])
    IN  broadcast(s2, get_lobby_info(s2))

\* mtype == "select_team"
\* select_team without the test of the range
msg_select_team_any(s, pid, tid) ==
    IF HasP(s.players, pid) /\ ~s.game_started
    THEN LET s1 == [s EXCEPT !.players[PIdx(s.players, pid)] =
                                [@ EXCEPT !.team_id = tid, !.ready = FALSE]]
         IN  broadcast(s1, get_lobby_info(s1))
    ELSE s

msg_select_team(s, pid, tid) ==
    IF HasP(s.players, pid) /\ ~s.game_started
    THEN LET s1 == IF 0 <= tid /\ tid < NUM_TEAMS
                   THEN [s EXCEPT !.players[PIdx(s.players, pid)] =
                                     [@ EXCEPT !.team_id = tid, !.ready = FALSE]]
                   ELSE s
         IN  broadcast(s1, get_lobby_info(s1))
    ELSE s

\* mtype == "ready"
msg_ready(s, pid, ready, rnd) ==
    IF HasP(s.players, pid) /\ ~s.game_started /\ GetP(s.players, pid).team_id >= 0
    THEN LET s1 == [s EXCEPT !.players[PIdx(s.players, pid)].ready = ready]
             s2 == broadcast(s1, get_lobby_info(s1))
         IN  IF check_all_ready(s2) THEN start_game(s2, rnd) ELSE s2
    ELSE s

\* a remove_player that leaves the player in the store
remove_player_kept(s, pid) ==
    LET s1 == [s EXCEPT !.clients = @ \ {pid}]
        s2 == broadcast(s1, [type |-> "player_left", player_id |-> pid])
    IN  IF ~s2.game_started THEN broadcast(s2, get_lobby_info(s2)) ELSE s2

\* a remove_player that starts the match when the players who stay are ready
remove_player_start(s, pid) ==
    LET s1 == [s EXCEPT !.players = PopP(@, pid), !.clients = @ \ {pid}]
        s2 == broadcast(s1, [type |-> "player_left", player_id |-> pid])
        s3 == IF ~s2.game_started THEN broadcast(s2, get_lobby_info(s2)) ELSE s2
    IN  IF check_all_ready(s3)
        THEN start_game(s3, [f |-> 0, u |-> 0, shuffle |-> POWER_UP_TYPES])
        ELSE s3

\* GameServer.remove_player
remove_player(s, pid) ==
    LET s1 == [s EXCEPT !.players = PopP(@, pid), !.clients = @ \ {pid}]
        s2 == broadcast(s1, [type |-> "player_left", player_id |-> pid])
    IN  IF ~s2.game_started THEN broadcast(s2, get_lobby_info(s2)) ELSE s2

-----------------------------------------------------------------------------
(* Death, respawn and win helpers *)

\* GameServer._drop_weapon for the player at index i of self.players
drop_weapon(s, i) ==
    LET player  == s.players[i]
        drop_id == s.next_drop_id
        s1 == [s EXCEPT
                 !.next_drop_id = @ + 1,
                 !.dropped_weapons =
                     Put(@, drop_id, DroppedWeapon(drop_id, player.weapon, player.x, player.y)),
                 !.players[i].weapon = "pistol"]
    IN  IF player.weapon = "pistol" THEN s
        ELSE broadcast(s1, [type |-> "weapon_dropped", drop_id |-> drop_id,
                            weapon_id |-> player.weapon, x |-> player.x, y |-> player.y])

\* _kill_player_env that does not start the respawn timer
kill_player_env_untimed(s, player_id) ==
    IF ~HasP(s.players, player_id) \/ ~GetP(s.players, player_id).alive THEN s
    ELSE LET i  == PIdx(s.players, player_id)
             s1 == [s EXCEPT !.players[i] = [@ EXCEPT !.alive = FALSE, !.hp = 0]]
             s2 == drop_weapon(s1, i)
         IN  broadcast(s2, [type |-> "player_killed", victim_id |-> player_id,
                            killer_id |-> -1, x |-> s2.players[i].x, y |-> s2.players[i].y])

\* the environment kill sparing a shielded player
kill_player_env_shielded(s, player_id) ==
    IF ~HasP(s.players, player_id) \/ ~GetP(s.players, player_id).alive THEN s
    ELSE IF s.now < GetP(s.players, player_id).shield_until THEN s
    ELSE LET i  == PIdx(s.players, player_id)
             s1 == [s EXCEPT !.players[i] =
                        [@ EXCEPT !.alive = FALSE, !.hp = 0,
                                  !.respawn_timer = RESPAWN_DELAY]]
             s2 == drop_weapon(s1, i)
         IN  broadcast(s2, [type |-> "player_killed", victim_id |-> player_id,
                            killer_id |-> -1, x |-> s2.players[i].x, y |-> s2.players[i].y])

\* GameServer._kill_player_env
kill_player_env(s, player_id) ==
    IF ~HasP(s.players, player_id) \/ ~GetP(s.players, player_id).alive THEN s
    ELSE LET i  == PIdx(s.players, player_id)
             s1 == [s EXCEPT !.players[i] =
                        [@ EXCEPT !.alive = FALSE, !.hp = 0,
                                  !.respawn_timer = RESPAWN_DELAY]]
             s2 == drop_weapon(s1, i)
         IN  broadcast(s2, [type |-> "player_killed", victim_id |-> player_id,
                            killer_id |-> -1, x |-> s2.players[i].x, y |-> s2.players[i].y])

\* the win test with kills > KILL_LIMIT in place of kills >= KILL_LIMIT
WinnerIdxAbove(tk) ==
    IF \E i \in 1..Len(tk) : tk[i].kills > KILL_LIMIT
    THEN CHOOSE i \in 1..Len(tk) :
            /\ tk[i].kills > KILL_LIMIT
            /\ \A j \in 1..(i - 1) : tk[j].kills <= KILL_LIMIT
    ELSE 0

\* the first team of self.team_kills.items() with kills >= KILL_LIMIT (0: none)
WinnerIdx(tk) ==
    IF \E i \in 1..Len(tk) : tk[i].kills >= KILL_LIMIT
    THEN CHOOSE i \in 1..Len(tk) :
            /\ tk[i].kills >= KILL_LIMIT
            /\ \A j \in 1..(i - 1) : tk[j].kills < KILL_LIMIT
    ELSE 0

\* GameServer.check_win_condition
check_win_condition(s) ==
    IF ~s.game_started \/ KILL_LIMIT <= 0 THEN s
    ELSE IF WinnerIdx(s.team_kills) = 0 THEN s
    ELSE broadcast([s EXCEPT !.game_over = TRUE],
                   [type |-> "game_over",
                    winner_team |-> s.team_kills[WinnerIdx(s.team_kills)].team,
                    team_kills |-> s.team_kills])

\* the respawn that leaves the rapid-fire window as it is
respawn_player_rapid(s, player_id, pos) ==
    IF ~HasP(s.players, player_id) THEN s
    ELSE LET i  == PIdx(s.players, player_id)
             s1 == [s EXCEPT !.players[i] =
                        [@ EXCEPT !.x = pos[1], !.y = pos[2], !.vx = 0, !.vy = 0,
                                  !.alive = TRUE, !.hp = PLAYER_MAX_HP,
                                  !.respawn_timer = 0,
                                  !.shield_until = s.now + RESPAWN_SHIELD]]
             p  == s1.players[i]
         IN  broadcast(s1, [type |-> "respawn", player_id |-> player_id,
                            x |-> p.x, y |-> p.y, hp |-> p.hp,
                            weapon |-> p.weapon, coins |-> p.coins])

\* GameServer._respawn_player; pos is the outcome of rand_player_pos()
respawn_player(s, player_id, pos) ==
    IF ~HasP(s.players, player_id) THEN s
    ELSE LET i  == PIdx(s.players, player_id)
             s1 == [s EXCEPT !.players[i] =
                        [@ EXCEPT !.x = pos[1], !.y = pos[2], !.vx = 0, !.vy = 0,
                                  !.alive = TRUE, !.hp = PLAYER_MAX_HP,
                                  !.respawn_timer = 0, !.rapid_fire_until = 0,
                                  !.shield_until = s.now + RESPAWN_SHIELD]]
             p  == s1.players[i]
         IN  broadcast(s1, [type |-> "respawn", player_id |-> player_id,
                            x |-> p.x, y |-> p.y, hp |-> p.hp,
                            weapon |-> p.weapon, coins |-> p.coins])

-----------------------------------------------------------------------------
(* Weapons *)

\* WEAPONS.get(p.weapon, WEAPONS["pistol"])
WeaponOf(weapon_id) ==
    IF weapon_id \in DOMAIN WEAPONS THEN WEAPONS[weapon_id] ELSE WEAPONS["pistol"]

\* lifetime = range_px / (speed * 60) * 1.5 + 0.5, in ms
ProjLifetime(weapon) == (weapon.range_px * 1500) \div (weapon.bullet_speed * 60) + 500

\* weapon["reload_time"] * rf_mult, in ms
\* the reload time without the rapid-fire factor
ReloadTimeFull(weapon, rapid) == weapon.reload_time

ReloadTime(weapon, rapid) ==
    IF rapid THEN (weapon.reload_time * 33) \div 100 ELSE weapon.reload_time

\* vy of pellet i: (-(pellets - 1) / 2.0 + i) * spread, 0.0 for a single pellet
PelletVy(weapon, i) ==
    IF weapon.pellets > 1
    THEN Quot((2 * i - (weapon.pellets - 1)) * weapon.spread, 2)
    ELSE 0

\* the Projectile built for pellet i in spawn_projectile
NewProjectile(s, p, weapon, facing, i) ==
    Projectile(s.next_proj_id + i, p.player_id, p.team_id,
               (p.x + (IF facing = "right" THEN PLAYER_W ELSE -4)) * MPX,
               (p.y + PLAYER_H \div 2) * MPX,
               IF facing = "right" THEN weapon.bullet_speed ELSE 0 - weapon.bullet_speed,
               PelletVy(weapon, i),
               ProjLifetime(weapon), weapon.damage, p.weapon, weapon.range_px)

\* GameServer.spawn_projectile
spawn_projectile(s, owner_id, facing) ==
    IF ~HasP(s.players, owner_id) \/ ~GetP(s.players, owner_id).alive THEN s
    ELSE LET p      == GetP(s.players, owner_id)
             weapon == WeaponOf(p.weapon)
             rapid  == s.now < p.rapid_fire_until
         IN  IF s.now < p.reload_until THEN s
             ELSE [s EXCEPT
                     !.players[PIdx(s.players, owner_id)].reload_until =
                         s.now + ReloadTime(weapon, rapid),
                     !.next_proj_id = @ + weapon.pellets,
                     !.projectiles =
                         [id \in (DOMAIN @) \cup
                                 (s.next_proj_id..(s.next_proj_id + weapon.pellets - 1)) |->
                            IF id \in DOMAIN @ THEN @[id]
                            ELSE NewProjectile(s, p, weapon, facing, id - s.next_proj_id)]]

-----------------------------------------------------------------------------
(* process_message: match messages *)

\* state without the test of alive
msg_state_any(s, pid, st) ==
    IF ~s.game_started THEN s
    ELSE IF HasP(s.players, pid)
    THEN [s EXCEPT !.players[PIdx(s.players, pid)] =
             [@ EXCEPT !.x = st.x, !.y = st.y, !.vx = st.vx, !.vy = st.vy,
                       !.on_ground = st.on_ground, !.facing = st.facing]]
    ELSE s

\* mtype == "state"; st carries the x, y, vx, vy, on_ground and facing of the message
msg_state(s, pid, st) ==
    IF ~s.game_started THEN s
    ELSE IF HasP(s.players, pid) /\ GetP(s.players, pid).alive
    THEN [s EXCEPT !.players[PIdx(s.players, pid)] =
             [@ EXCEPT !.x = st.x, !.y = st.y, !.vx = st.vx, !.vy = st.vy,
                       !.on_ground = st.on_ground, !.facing = st.facing]]
    ELSE s

\* mtype == "fell_off"
msg_fell_off(s, pid) ==
    IF s.game_started THEN kill_player_env(s, pid) ELSE s

\* the range test of pick_weapon: 50 px from the player centre to the drop
\* the range test with the 50 px themselves out of range
PickTooFarAtRange(p, drop) ==
    LET dx == (2 * p.x + PLAYER_W) - (2 * drop.x + PLAYER_W)
        dy == (2 * p.y + PLAYER_H) - 2 * drop.y
    IN  dx * dx + dy * dy >= 4 * 50 * 50

PickTooFar(p, drop) ==
    LET dx == (2 * p.x + PLAYER_W) - (2 * drop.x + PLAYER_W)
        dy == (2 * p.y + PLAYER_H) - 2 * drop.y
    IN  dx * dx + dy * dy > 4 * 50 * 50

\* a pick_weapon that leaves the drop on the ground
msg_pick_weapon_copy(s, pid, drop_id) ==
    IF ~s.game_started THEN s
    ELSE IF ~HasP(s.players, pid) \/ ~GetP(s.players, pid).alive THEN s
    ELSE IF drop_id \notin DOMAIN s.dropped_weapons THEN s
    ELSE IF s.dropped_weapons[drop_id].pickup_delay > 0 THEN s
    ELSE IF PickTooFar(GetP(s.players, pid), s.dropped_weapons[drop_id]) THEN s
    ELSE LET drop == s.dropped_weapons[drop_id]
             s1 == [s EXCEPT !.players[PIdx(s.players, pid)].weapon = drop.weapon_id]
         IN  broadcast(s1, [type |-> "weapon_pickup", drop_id |-> drop_id,
                            player_id |-> pid, weapon_id |-> drop.weapon_id])

\* mtype == "pick_weapon"
msg_pick_weapon(s, pid, drop_id) ==
    IF ~s.game_started THEN s
    ELSE IF ~HasP(s.players, pid) \/ ~GetP(s.players, pid).alive THEN s
    ELSE IF drop_id \notin DOMAIN s.dropped_weapons THEN s
    ELSE IF s.dropped_weapons[drop_id].pickup_delay > 0 THEN s
    ELSE IF PickTooFar(GetP(s.players, pid), s.dropped_weapons[drop_id]) THEN s
    ELSE LET drop == s.dropped_weapons[drop_id]
             s1 == [s EXCEPT !.dropped_weapons = Drop(@, drop_id),
                             !.players[PIdx(s.players, pid)].weapon = drop.weapon_id]
         IN  broadcast(s1, [type |-> "weapon_pickup", drop_id |-> drop_id,
                            player_id |-> pid, weapon_id |-> drop.weapon_id])

\* a throw that lets a connection without a player shoot from (100, 100)
msg_throw_unowned(s, pid, facing) ==
    IF s.game_started /\ HasP(s.players, pid) /\ GetP(s.players, pid).alive
    THEN spawn_projectile(s, pid, facing)
    ELSE IF s.game_started /\ ~HasP(s.players, pid)
    THEN [s EXCEPT !.next_proj_id = @ + 1,
                   !.projectiles =
                       (s.next_proj_id :> NewProjectile(s, PlayerState(pid), WEAPONS["pistol"],
                                                        facing, 0)) @@ @]
    ELSE s

\* mtype == "throw"
msg_throw(s, pid, facing) ==
    IF s.game_started /\ HasP(s.players, pid) /\ GetP(s.players, pid).alive
    THEN spawn_projectile(s, pid, facing)
    ELSE s

\* the proximity test with >= in place of >
ShopTooFarAtRadius(p) ==
    LET dx == p.x - SHOP_X
        dy == p.y - (SHOP_Y - PLAYER_H)
    IN  dx * dx + dy * dy >= SHOP_RADIUS * SHOP_RADIUS

\* the proximity test of buy_weapon
ShopTooFar(p) ==
    LET dx == p.x - SHOP_X
        dy == p.y - (SHOP_Y - PLAYER_H)
    IN  dx * dx + dy * dy > SHOP_RADIUS * SHOP_RADIUS

\* buy_weapon that takes the coins before it looks at the balance
msg_buy_weapon_charged(s, pid, weapon_id) ==
    IF ~s.game_started THEN s
    ELSE IF ~HasP(s.players, pid) \/ ~GetP(s.players, pid).alive THEN s
    ELSE IF weapon_id \notin DOMAIN WEAPONS THEN s
    ELSE LET p      == GetP(s.players, pid)
             weapon == WEAPONS[weapon_id]
             s1     == [s EXCEPT !.players[PIdx(s.players, pid)].coins = @ - weapon.price]
             s2     == [s1 EXCEPT !.players[PIdx(s.players, pid)].weapon = weapon_id]
         IN  IF ShopTooFar(p)
             THEN send_to(s, pid, [type |-> "buy_failed", reason |-> "too_far"])
             ELSE IF p.coins < weapon.price
             THEN send_to(s1, pid, [type |-> "buy_failed", reason |-> "insufficient_coins"])
             ELSE send_to(s2, pid, [type |-> "weapon_bought", weapon_id |-> weapon_id,
                                    coins |-> p.coins - weapon.price])

\* mtype == "buy_weapon"
msg_buy_weapon(s, pid, weapon_id) ==
    IF ~s.game_started THEN s
    ELSE IF ~HasP(s.players, pid) \/ ~GetP(s.players, pid).alive THEN s
    ELSE IF weapon_id \notin DOMAIN WEAPONS THEN s
    ELSE LET p      == GetP(s.players, pid)
             weapon == WEAPONS[weapon_id]
             s1     == [s EXCEPT !.players[PIdx(s.players, pid)] =
                           [@ EXCEPT !.coins = @ - weapon.price, !.weapon = weapon_id]]
         IN  IF ShopTooFar(p)
             THEN send_to(s, pid, [type |-> "buy_failed", reason |-> "too_far"])
             ELSE IF p.coins < weapon.price
             THEN send_to(s, pid, [type |-> "buy_failed", reason |-> "insufficient_coins"])
             ELSE send_to(s1, pid, [type |-> "weapon_bought", weapon_id |-> weapon_id,
                                    coins |-> p.coins - weapon.price])

-----------------------------------------------------------------------------
(* tick_projectiles *)

\* a sub-step longer than any displacement of one tick: no sub-stepping
StepWholeTick == 100 * MPX

\* _STEP = 2.0 px, in milli-pixels
STEP == 2 * MPX

\* proj.vx * dt * 60: the displacement of one tick, in milli-pixels
TickDisp(v) == Quot(v * TickMs * 60 * MPX, 1000)

\* the player test of one sub-step without the eligibility of the player
PlayerHitAnyone(s, proj, plr) ==
    /\ proj.x + 4 * MPX > plr.x * MPX
    /\ proj.x < (plr.x + PLAYER_W) * MPX
    /\ proj.y + 4 * MPX > plr.y * MPX
    /\ proj.y < (plr.y + PLAYER_H) * MPX

\* the player test of one sub-step: eligible (not the owner, another team,
\* alive, not shielded) and overlapping the 4x4 bullet
PlayerHit(s, proj, plr) ==
    /\ ~(plr.player_id = proj.owner_id \/ plr.team_id = proj.team_id)
    /\ ~(~plr.alive \/ s.now < plr.shield_until)
    /\ proj.x + 4 * MPX > plr.x * MPX
    /\ proj.x < (plr.x + PLAYER_W) * MPX
    /\ proj.y + 4 * MPX > plr.y * MPX
    /\ proj.y < (plr.y + PLAYER_H) * MPX

\* an object test that does not skip the destroyed objects
ObjectHitDestroyed(proj, obj) ==
    /\ proj.x + 4 * MPX > obj.x * MPX
    /\ proj.x < (obj.x + 16) * MPX
    /\ proj.y + 4 * MPX > (obj.y - 32) * MPX
    /\ proj.y < (obj.y + 4) * MPX

\* the object test of one sub-step (ow, oh = 16, 32)
ObjectHit(proj, obj) ==
    /\ obj.alive
    /\ proj.x + 4 * MPX > obj.x * MPX
    /\ proj.x < (obj.x + 16) * MPX
    /\ proj.y + 4 * MPX > (obj.y - 32) * MPX
    /\ proj.y < (obj.y + 4) * MPX

\* the death processing that leaves the victim its weapon
LethalHitArmed(s, proj, i) ==
    LET s2 == [s EXCEPT !.players[i] =
                  [@ EXCEPT !.alive = FALSE, !.hp = 0, !.respawn_timer = RESPAWN_DELAY]]
        k  == PIdx(s2.players, proj.owner_id)
        s3 == IF k = 0 THEN s2
              ELSE LET killer == s2.players[k]
                       s2a == [s2 EXCEPT
                                 !.players[k] = [@ EXCEPT !.coins = @ + KILL_COIN_REWARD,
                                                          !.kills = @ + 1],
                                 !.team_kills = TKPut(@, killer.team_id,
                                                      TKGet(@, killer.team_id) + 1)]
                   IN  send_to(s2a, proj.owner_id,
                               [type |-> "coins_update",
                                coins |-> killer.coins + KILL_COIN_REWARD])
        s4 == broadcast(s3, [type |-> "player_killed",
                             victim_id |-> s3.players[i].player_id,
                             killer_id |-> proj.owner_id,
                             x |-> s3.players[i].x, y |-> s3.players[i].y])
    IN  check_win_condition(s4)

\* the kill branch of a player hit (plr.hp <= 0), victim at index i
LethalHit(s, proj, i) ==
    LET s1 == [s EXCEPT !.players[i] =
                  [@ EXCEPT !.alive = FALSE, !.hp = 0, !.respawn_timer = RESPAWN_DELAY]]
        s2 == drop_weapon(s1, i)
        k  == PIdx(s2.players, proj.owner_id)
        s3 == IF k = 0 THEN s2
              ELSE LET killer == s2.players[k]
                       s2a == [s2 EXCEPT
                                 !.players[k] = [@ EXCEPT !.coins = @ + KILL_COIN_REWARD,
                                                          !.kills = @ + 1],
                                 !.team_kills = TKPut(@, killer.team_id,
                                                      TKGet(@, killer.team_id) + 1)]
                   IN  send_to(s2a, proj.owner_id,
                               [type |-> "coins_update",
                                coins |-> killer.coins + KILL_COIN_REWARD])
        s4 == broadcast(s3, [type |-> "player_killed",
                             victim_id |-> s3.players[i].player_id,
                             killer_id |-> proj.owner_id,
                             x |-> s3.players[i].x, y |-> s3.players[i].y])
    IN  check_win_condition(s4)

\* a projectile hits the player at index i
HitPlayer(s, proj, i) ==
    LET hp == s.players[i].hp - proj.damage
        s1 == [s EXCEPT !.players[i].hp = hp]
        s2 == broadcast(s1, [type |-> "projectile_hit", proj_id |-> proj.proj_id,
                             victim_id |-> s.players[i].player_id,
                             damage |-> proj.damage, hp |-> Max(0, hp),
                             x |-> proj.x, y |-> proj.y])
    IN  IF hp <= 0 THEN LethalHit(s2, proj, i) ELSE s2

\* a projectile hits the breakable object o
HitObject(s, proj, o, rnd) ==
    LET obj   == s.objects[o]
        hp    == obj.hp - BREAKABLE_PROJECTILE_DAMAGE
        s1    == [s EXCEPT !.objects[o].hp = hp]
        s2    == broadcast(s1, [type |-> "object_hit", obj_id |-> o, hp |-> Max(0, hp),
                                x |-> proj.x, y |-> proj.y])
        lo    == BREAKABLE_COIN_RANGE[obj.obj_type][1]
        hi    == BREAKABLE_COIN_RANGE[obj.obj_type][2]
        coins == Uniform(lo, hi, UDraw(rnd, o))
        s3    == broadcast([s2 EXCEPT !.objects[o].alive = FALSE],
                           [type |-> "object_destroyed", obj_id |-> o,
                            x |-> obj.x, y |-> obj.y, coins |-> coins])
        k     == PIdx(s3.players, proj.owner_id)
        s4    == IF k = 0 THEN s3
                 ELSE send_to([s3 EXCEPT !.players[k].coins = @ + coins], proj.owner_id,
                              [type |-> "coins_update",
                               coins |-> s3.players[k].coins + coins])
    IN  IF hp <= 0 THEN s4 ELSE s2

\* the sub-step loop without its range check
RangeUnchecked(proj) == FALSE

\* proj.dist >= proj.range_px
RangeExpired(proj) == proj.dist >= proj.range_px * MPX

\* a world that ends at x = 100
OutOfWorldNarrow(proj) == proj.x > 100 * MPX

\* far outside the map
OutOfWorld(proj) ==
    \/ proj.x < -100 * MPX
    \/ proj.x > 1150 * MPX
    \/ proj.y < -200 * MPX
    \/ proj.y > 650 * MPX

\* the sub-step loop with its four checks in the reverse order
RECURSIVE SubStepsReversed(_, _, _, _, _, _, _)
SubStepsReversed(s, id, k, sx, sy, sub_len, rnd) ==
    IF k = 0 THEN [s |-> s, remove |-> FALSE]
    ELSE
      LET proj == [s.projectiles[id] EXCEPT !.x = @ + sx, !.y = @ + sy,
                                            !.dist = @ + sub_len]
          s1   == [s EXCEPT !.projectiles[id] = proj]
          hitP == {i \in 1..Len(s1.players) : PlayerHit(s1, proj, s1.players[i])}
          hitO == {o \in DOMAIN s1.objects : ObjectHit(proj, s1.objects[o])}
      IN  IF hitO # {}
          THEN [s |-> HitObject(s1, proj, CHOOSE o \in hitO : \A q \in hitO : o <= q, rnd),
                remove |-> TRUE]
          ELSE IF hitP # {}
          THEN [s |-> HitPlayer(s1, proj, CHOOSE i \in hitP : \A j \in hitP : i <= j),
                remove |-> TRUE]
          ELSE IF OutOfWorld(proj) THEN [s |-> s1, remove |-> TRUE]
          ELSE IF RangeExpired(proj) THEN [s |-> s1, remove |-> TRUE]
          ELSE SubStepsReversed(s1, id, k - 1, sx, sy, sub_len, rnd)

\* The sub-step loop of one projectile: k sub-steps are left.  The result is
\* the server after the loop and whether the projectile goes to to_remove.
RECURSIVE SubSteps(_, _, _, _, _, _, _)
SubSteps(s, id, k, sx, sy, sub_len, rnd) ==
    IF k = 0 THEN [s |-> s, remove |-> FALSE]
    ELSE
      LET proj == [s.projectiles[id] EXCEPT !.x = @ + sx, !.y = @ + sy,
                                            !.dist = @ + sub_len]
          s1   == [s EXCEPT !.projectiles[id] = proj]
          hitP == {i \in 1..Len(s1.players) : PlayerHit(s1, proj, s1.players[i])}
          hitO == {o \in DOMAIN s1.objects : ObjectHit(proj, s1.objects[o])}
      IN  IF RangeExpired(proj) THEN [s |-> s1, remove |-> TRUE]
          ELSE IF OutOfWorld(proj) THEN [s |-> s1, remove |-> TRUE]
          ELSE IF hitP # {}
          THEN [s |-> HitPlayer(s1, proj, CHOOSE i \in hitP : \A j \in hitP : i <= j),
                remove |-> TRUE]
          ELSE IF hitO # {}
          THEN [s |-> HitObject(s1, proj, CHOOSE o \in hitO : \A q \in hitO : o <= q, rnd),
                remove |-> TRUE]
          ELSE SubSteps(s1, id, k - 1, sx, sy, sub_len, rnd)

\* the body of the projectile loop with a sub-step loop whose projectile is
\* never put on to_remove
StepProjectileKept(s, id, rnd) ==
    LET proj      == [s.projectiles[id] EXCEPT !.lifetime = @ - TickMs]
        s1        == [s EXCEPT !.projectiles[id] = proj]
        mx        == TickDisp(proj.vx)
        my        == TickDisp(proj.vy)
        tick_dist == Hypot(mx, my)
        n_steps   == Max(1, CeilDiv(tick_dist, STEP))
    IN  IF proj.lifetime <= 0 THEN [s |-> s1, remove |-> TRUE]
        ELSE IF tick_dist = 0 THEN [s |-> s1, remove |-> TRUE]
        ELSE [s |-> SubSteps(s1, id, n_steps, Quot(mx, n_steps), Quot(my, n_steps),
                             tick_dist \div n_steps, rnd).s,
              remove |-> FALSE]

\* the body of the projectile loop of tick_projectiles for projectile id
StepProjectile(s, id, rnd) ==
    LET proj      == [s.projectiles[id] EXCEPT !.lifetime = @ - TickMs]
        s1        == [s EXCEPT !.projectiles[id] = proj]
        mx        == TickDisp(proj.vx)
        my        == TickDisp(proj.vy)
        tick_dist == Hypot(mx, my)
        n_steps   == Max(1, CeilDiv(tick_dist, STEP))
    IN  IF proj.lifetime <= 0 THEN [s |-> s1, remove |-> TRUE]
        ELSE IF tick_dist = 0 THEN [s |-> s1, remove |-> TRUE]
        ELSE SubSteps(s1, id, n_steps, Quot(mx, n_steps), Quot(my, n_steps),
                      tick_dist \div n_steps, rnd)

\* the loop over list(self.projectiles.items()), ids being the ones left to
\* visit and gone the to_remove list
RECURSIVE ProjLoop(_, _, _, _)
ProjLoop(s, ids, gone, rnd) ==
    IF ids = <<>>
    THEN [s EXCEPT !.projectiles = [id \in (DOMAIN @) \ gone |-> @[id]]]
    ELSE LET r == StepProjectile(s, Head(ids), rnd)
         IN  ProjLoop(r.s, Tail(ids),
                      IF r.remove THEN gone \cup {Head(ids)} ELSE gone, rnd)

\* GameServer.tick_projectiles
tick_projectiles(s, rnd) == ProjLoop(s, SortedSeq(DOMAIN s.projectiles), {}, rnd)

-----------------------------------------------------------------------------
(* The other tick functions *)

\* GameServer.tick_fall_deaths, from the player at index i on.  The loop runs
\* over list(self.players.values()), and a kill removes no player, so the
\* indices stay valid.
RECURSIVE FallLoop(_, _)
FallLoop(s, i) ==
    IF i > Len(s.players) THEN s
    ELSE LET p == s.players[i]
         IN  FallLoop(IF p.alive /\ p.y > 450 THEN kill_player_env(s, p.player_id) ELSE s,
                      i + 1)

tick_fall_deaths(s) == FallLoop(s, 1)

\* GameServer.tick_respawns, from the player at index i on
RECURSIVE RespawnLoop(_, _, _)
RespawnLoop(s, i, rnd) ==
    IF i > Len(s.players) THEN s
    ELSE LET p  == s.players[i]
             t  == p.respawn_timer - TickMs
             s1 == [s EXCEPT !.players[i].respawn_timer = t]
             s2 == [s EXCEPT !.players[i].respawn_timer = 0]
         IN  RespawnLoop(
                 IF ~p.alive /\ p.respawn_timer > 0
                 THEN IF t <= 0
                      THEN respawn_player(s2, p.player_id,
                                          rand_player_pos(FloorDraw(rnd, p.player_id)))
                      ELSE s1
                 ELSE s,
                 i + 1, rnd)

tick_respawns(s, rnd) == RespawnLoop(s, 1, rnd)

\* POWER_UP_TYPES.index(pu_type)
TypeIndex(pu_type) == CHOOSE i \in 1..Len(POWER_UP_TYPES) : POWER_UP_TYPES[i] = pu_type

\* a rotation that goes backwards
PreviousType(pu_type) ==
    POWER_UP_TYPES[((TypeIndex(pu_type) + Len(POWER_UP_TYPES) - 2) % Len(POWER_UP_TYPES)) + 1]

\* POWER_UP_TYPES[(idx + 1) % len(POWER_UP_TYPES)]
NextType(pu_type) == POWER_UP_TYPES[(TypeIndex(pu_type) % Len(POWER_UP_TYPES)) + 1]

\* the pickup test of tick_power_ups
PickupHit(plr, pu) ==
    /\ plr.alive
    /\ plr.x < pu.spawn_x + 10
    /\ plr.x + PLAYER_W > pu.spawn_x
    /\ plr.y < pu.spawn_y + 10
    /\ plr.y + PLAYER_H > pu.spawn_y

\* a power-up taken out of play without a respawn delay
RespawnDelayNone(rnd, k) == 0

\* random.uniform(POWER_UP_RESPAWN_TIME * 0.6, POWER_UP_RESPAWN_TIME * 1.4)
RespawnDelay(rnd, k) ==
    Uniform((POWER_UP_RESPAWN_TIME * 6) \div 10, (POWER_UP_RESPAWN_TIME * 14) \div 10,
            UDraw(rnd, k))

\* random.uniform(POWER_UP_LIFETIME * 0.4, POWER_UP_LIFETIME)
NewLifetime(rnd, k) ==
    Uniform((POWER_UP_LIFETIME * 4) \div 10, POWER_UP_LIFETIME, UDraw(rnd, k))

\* the body of the loop of tick_power_ups for power-up i
StepPowerUp(s, i, rnd) ==
    LET pu   == s.power_ups[i]
        rt   == pu.respawn_timer - TickMs
        lt   == pu.lifetime_timer - TickMs
        pos  == rand_powerup_pos(FloorDraw(rnd, i))
        hits == {k \in 1..Len(s.players) :
                    PickupHit(s.players[k], [pu EXCEPT !.lifetime_timer = lt])}
        k    == CHOOSE k \in hits : \A j \in hits : k <= j
        duration == POWER_UP_DURATIONS[pu.pu_type]
        off  == [pu EXCEPT !.lifetime_timer = lt, !.active = FALSE,
                           !.respawn_timer = RespawnDelay(rnd, i)]
    IN  IF ~pu.active
        THEN IF rt <= 0
             THEN [s EXCEPT !.power_ups[i] =
                      [pu EXCEPT !.respawn_timer = rt, !.spawn_x = pos[1],
                                 !.spawn_y = pos[2], !.active = TRUE,
                                 !.lifetime_timer = NewLifetime(rnd, i),
                                 !.pu_type = NextType(pu.pu_type)]]
             ELSE [s EXCEPT !.power_ups[i].respawn_timer = rt]
        ELSE IF lt <= 0
        THEN broadcast([s EXCEPT !.power_ups[i] = off],
                       [type |-> "powerup_expired", pu_id |-> i])
        ELSE IF hits # {}
        THEN broadcast(
                 [s EXCEPT
                    !.power_ups[i] = off,
                    !.players[k] =
                        IF pu.pu_type = "shield"
                        THEN [@ EXCEPT !.shield_until = s.now + duration]
                        ELSE IF pu.pu_type = "rapid_fire"
                        THEN [@ EXCEPT !.rapid_fire_until = s.now + duration]
                        ELSE @],
                 [type |-> "powerup_pickup", pu_id |-> i, pu_type |-> pu.pu_type,
                  player_id |-> s.players[k].player_id, duration |-> duration])
        ELSE [s EXCEPT !.power_ups[i].lifetime_timer = lt]

RECURSIVE PowerUpLoop(_, _, _)
PowerUpLoop(s, ids, rnd) ==
    IF ids = <<>> THEN s
    ELSE CHOOSE r \in {PowerUpLoop(t, tl, rnd) :
                          t \in {StepPowerUp(s, Head(ids), rnd)},
                          tl \in {Tail(ids)}} : TRUE

\* GameServer.tick_power_ups
tick_power_ups(s, rnd) == PowerUpLoop(s, SortedSeq(DOMAIN s.power_ups), rnd)

\* the loop of tick_dropped_weapons, ids being the drops left to visit
RECURSIVE DropLoop(_, _)
DropLoop(s, ids) ==
    IF ids = <<>> THEN s
    ELSE LET d    == Head(ids)
             drop == [s.dropped_weapons[d] EXCEPT !.lifetime = @ - TickMs,
                                                 !.pickup_delay = @ - TickMs]
             s1   == [s EXCEPT !.dropped_weapons[d] = drop]
         IN  DropLoop(IF drop.lifetime <= 0
                      THEN broadcast(s1, [type |-> "weapon_gone", drop_id |-> d])
                      ELSE s1,
                      Tail(ids))

\* the drops whose lifetime ran out in this pass (to_remove)
ExpiredDrops(s) == {d \in DOMAIN s.dropped_weapons : s.dropped_weapons[d].lifetime <= 0}

\* a dropped-weapon step with pickup on touch: the first alive player in the
\* reach of a drop whose pickup delay is over takes it
tick_dropped_weapons_touch(s) ==
    LET s1   == DropLoop(s, SortedSeq(DOMAIN s.dropped_weapons))
        s2   == [s1 EXCEPT !.dropped_weapons = [d \in (DOMAIN @) \ ExpiredDrops(s1) |-> @[d]]]
        near == {c \in (1..Len(s2.players)) \X (DOMAIN s2.dropped_weapons) :
                    /\ s2.players[c[1]].alive
                    /\ s2.dropped_weapons[c[2]].pickup_delay <= 0
                    /\ ~PickTooFar(s2.players[c[1]], s2.dropped_weapons[c[2]])}
        c    == CHOOSE c \in near : \A e \in near : c[1] < e[1] \/ (c[1] = e[1] /\ c[2] <= e[2])
    IN  IF near = {} THEN s2
        ELSE msg_pick_weapon(s2, s2.players[c[1]].player_id, c[2])

\* GameServer.tick_dropped_weapons
tick_dropped_weapons(s) ==
    LET s1 == DropLoop(s, SortedSeq(DOMAIN s.dropped_weapons))
    IN  [s1 EXCEPT !.dropped_weapons = [d \in (DOMAIN @) \ ExpiredDrops(s1) |-> @[d]]]

\* GameServer.build_world_msg (the fields the properties read)
build_world_msg(s) ==
    [type |-> "world",
     team_kills |-> s.team_kills,
     players |-> [i \in 1..Len(s.players) |->
                    [player_id |-> s.players[i].player_id, hp |-> s.players[i].hp,
                     alive |-> s.players[i].alive, weapon |-> s.players[i].weapon,
                     coins |-> s.players[i].coins]],
     projectiles |-> DOMAIN s.projectiles,
     objects |-> [o \in DOMAIN s.objects |->
                    [hp |-> s.objects[o].hp, max_hp |-> s.objects[o].max_hp,
                     alive |-> s.objects[o].alive]]]

\* the body of world_broadcast_loop under the lock; s.now is the time after
\* the sleep
tick_body(s, rnd) ==
    IF s.game_started /\ Len(s.players) > 0
    THEN LET s1 == tick_fall_deaths(s)
             s2 == tick_respawns(s1, rnd)
             s3 == tick_projectiles(s2, rnd)
             s4 == tick_power_ups(s3, rnd)
             s5 == tick_dropped_weapons(s4)
         IN  broadcast(s5, build_world_msg(s5))
    ELSE s

-----------------------------------------------------------------------------
(* Inputs *)

\* team_id values of select_team messages
TeamInputs == {0, NUM_TEAMS}

\* state messages of a client walking around the shop: SHOP_RADIUS and one
\* pixel more to the right of (SHOP_X, SHOP_Y - PLAYER_H), and the same to the
\* right of (SHOP_X, SHOP_Y)
ShopStates ==
    {[x |-> 524, y |-> 240, vx |-> 0, vy |-> 0, on_ground |-> TRUE, facing |-> "right"],
     [x |-> 525, y |-> 240, vx |-> 1, vy |-> 0, on_ground |-> TRUE, facing |-> "left"],
     [x |-> 524, y |-> 256, vx |-> 0, vy |-> 2, on_ground |-> FALSE, facing |-> "right"],
     [x |-> 525, y |-> 256, vx |-> 1, vy |-> 2, on_ground |-> FALSE, facing |-> "left"]}

\* state messages of a client in combat: below the map, and on a floor tile
\* a power-up spawns on
CombatStates ==
    {[x |-> 100, y |-> 451, vx |-> 0, vy |-> 9, on_ground |-> FALSE, facing |-> "left"],
     [x |-> 96, y |-> 336, vx |-> 0, vy |-> 0, on_ground |-> TRUE, facing |-> "right"]}

StateInputs == ShopStates \cup CombatStates

FacingInputs == {"left", "right"}

\* weapon_id values of buy_weapon messages ("knife" is no weapon)
WeaponInputs == {"pistol", "auto", "sniper", "knife"}

\* outcomes of random.shuffle(POWER_UP_TYPES.copy())
Shuffled == <<"double_jump", "rapid_fire", "shield", "jump", "speed">>

ShuffleSamples == {POWER_UP_TYPES, Shuffled}

\* the draws of the pseudo-random generator in one critical section
Rnds == [f : 0..(Len(VALID_FLOOR) - 1), u : 0..1, shuffle : ShuffleSamples]

\* a critical section that draws no random number
NoRnd == [f |-> 0, u |-> 0, shuffle |-> POWER_UP_TYPES]

-----------------------------------------------------------------------------
(* History variables *)

\* number of messages of type t in a socket log
RECURSIVE CountType(_, _)
CountType(log, t) ==
    IF log = <<>> THEN 0
    ELSE (IF Head(log).type = t THEN 1 ELSE 0) + CountType(Tail(log), t)

\* killed_since after the messages of log: a player_killed counts for its
\* victim, a respawn event starts the victim's count again
RECURSIVE KilledAfter(_, _)
KilledAfter(ks, log) ==
    IF log = <<>> THEN ks
    ELSE LET m == Head(log)
         IN  KilledAfter(
                 IF m.type = "player_killed"
                 THEN [ks EXCEPT ![m.victim_id] = @ + 1]
                 ELSE IF m.type = "respawn"
                 THEN [ks EXCEPT ![m.player_id] = 0]
                 ELSE ks,
                 Tail(log))

\* the message types of process_message
MessageTypes ==
    {"join", "select_team", "ready", "state", "fell_off", "pick_weapon",
     "throw", "buy_weapon"}

\* what the reader thread of a connection handles: a message or the end of
\* the stream
ClientEvents == MessageTypes \cup {"disconnect"}

\* the clients cause at most MaxMsgs events during the match
Budget == game_started => msgs < MaxMsgs

\* the server after a step under the lock becomes the next state, r being
\* the readers that have left their loop by an exception and pc the position
\* of world_broadcast_loop
Store(s0, o, r, pc) ==
    \E s \in {s0} :
        /\ players' = s.players
        /\ clients' = s.clients
        /\ projectiles' = s.projectiles
        /\ power_ups' = s.power_ups
        /\ dropped_weapons' = s.dropped_weapons
        /\ objects' = s.objects
        /\ next_id' = s.next_id
        /\ next_proj_id' = s.next_proj_id
        /\ next_drop_id' = s.next_drop_id
        /\ game_over' = s.game_over
        /\ game_started' = s.game_started
        /\ team_kills' = s.team_kills
        /\ now' = s.now
        /\ op' = o
        /\ out' = s.out
        /\ game_over_sent' = game_over_sent + CountType(s.out, "game_over")
        /\ killed_since' = KilledAfter(killed_since, s.out)
        /\ msgs' = IF game_started /\ o \in ClientEvents THEN msgs + 1 ELSE msgs
        /\ raised' = r
        /\ tick_pc' = pc
        /\ launch_teams' = launch_teams

\* a critical section that does not wait for the lock
ApplyUnlocked(s0, o, r) == Store(s0, o, r, tick_pc) /\ tick_from' = tick_from

\* a critical section of run or handle_client: "with self.lock" waits while
\* world_broadcast_loop holds the lock
Apply(s0, o, r) == tick_pc = 0 /\ Store(s0, o, r, 0) /\ tick_from' = tick_from

\* a critical section that raises nothing; a reader that is gone from the
\* client table has run its finally clause
Commit(s0, o) == Apply(s0, o, raised \cap s0.clients)

-----------------------------------------------------------------------------
(* Actions: one per critical section *)

\* GameServer.__init__
Init ==
    /\ players = <<>>
    /\ clients = {}
    /\ projectiles = <<>>
    /\ power_ups = <<>>
    /\ dropped_weapons = <<>>
    /\ objects = <<>>
    /\ next_id = 0
    /\ next_proj_id = 0
    /\ next_drop_id = 0
    /\ game_over = FALSE
    /\ game_started = FALSE
    /\ team_kills = <<>>
    /\ now = 0
    /\ op = "init"
    /\ out = <<>>
    /\ game_over_sent = 0
    /\ killed_since = [p \in 0..MaxConn |-> 0]
    /\ msgs = 0
    /\ raised = {}
    /\ tick_pc = 0
    /\ tick_from = <<>>
    /\ launch_teams = NUM_TEAMS

\* run: one accepted connection
Accept ==
    /\ next_id < MaxConn
    /\ Commit(IF Len(players) >= MAX_PLAYERS \/ game_started
              THEN Server
              ELSE [Server EXCEPT !.next_id = @ + 1, !.clients = @ \cup {next_id}],
              "accept")

\* handle_client: the reader of connection pid is in its loop (622-640)
Reading(pid) == pid \in clients /\ pid \notin raised

\* handle_client: a line {"type": "join"} of connection pid
Join(pid) ==
    /\ Reading(pid)
    /\ Budget
    /\ Commit(msg_join(Server, pid), "join")

\* handle_client: a line {"type": "select_team", "team_id": tid}
SelectTeam(pid, tid) ==
    /\ Reading(pid)
    /\ Budget
    /\ Commit(msg_select_team(Server, pid, tid),
              "select_team")

\* handle_client: a line {"type": "ready", "ready": r}
Ready(pid, r, rnd) ==
    /\ Reading(pid)
    /\ Budget
    /\ Commit(msg_ready(Server, pid, r, rnd), "ready")

\* handle_client: a line {"type": "state", ...}
State(pid, st) ==
    /\ Reading(pid)
    /\ Budget
    /\ Commit(msg_state(Server, pid, st), "state")

\* handle_client: a line {"type": "fell_off"}
FellOff(pid) ==
    /\ Reading(pid)
    /\ Budget
    /\ Commit(msg_fell_off(Server, pid), "fell_off")

\* handle_client: a line {"type": "pick_weapon", "drop_id": d}
PickWeapon(pid, d) ==
    /\ Reading(pid)
    /\ Budget
    /\ Commit(msg_pick_weapon(Server, pid, d),
              "pick_weapon")

\* handle_client: a line {"type": "throw", "facing": f}
Throw(pid, f) ==
    /\ Reading(pid)
    /\ Budget
    /\ Commit(msg_throw(Server, pid, f), "throw")

\* handle_client: a line {"type": "buy_weapon", "weapon_id": w}
BuyWeapon(pid, w) ==
    /\ Reading(pid)
    /\ Budget
    /\ Commit(msg_buy_weapon(Server, pid, w),
              "buy_weapon")

\* handle_client: the reader of connection pid ends (EOF, reset, game over)
Disconnect(pid) ==
    /\ pid \in clients
    /\ Budget
    /\ Commit(remove_player(Server, pid), "disconnect")

\* Whether a received line of the given kind makes the reader of pid raise an
\* exception that handle_client does not catch:
\*   "not_utf8"     bytes that are not UTF-8: recv(4096).decode("utf-8")
\*   "not_json"     text that json.loads rejects: JSONDecodeError, caught
\*   "no_type"      a JSON object without "type": no branch is taken
\*   "unknown_type" a JSON object with a type of no branch
\*   "not_object"   a JSON array or number: msg.get("type")
\*   "team_id"      select_team with the team_id "red": int(...)
\*   "state_y"      state with x 105 and the y "up": float(...)
\*   "drop_id"      pick_weapon with the drop_id [1]: dict.get of a list
\*   "weapon_id"    buy_weapon with the weapon_id [1]: list in WEAPONS
Raises(s, pid, kind) ==
    CASE kind \in {"not_utf8", "not_object"} -> TRUE
      [] kind = "team_id" -> HasP(s.players, pid) /\ ~s.game_started
      [] kind \in {"state_y", "drop_id", "weapon_id"} ->
            /\ s.game_started
            /\ HasP(s.players, pid)
            /\ GetP(s.players, pid).alive
      [] OTHER -> FALSE

\* handle_client: one received line of the given kind.  None of these lines
\* changes the server, except that state has assigned x when y raises.
Line(pid, kind) ==
    /\ Reading(pid)
    /\ Budget
    /\ Apply(IF kind = "state_y" /\ Raises(Server, pid, kind)
             THEN [Server EXCEPT !.players[PIdx(players, pid)].x = 105]
             ELSE Server,
             kind,
             IF Raises(Server, pid, kind) THEN raised \cup {pid} ELSE raised)


\* world_broadcast_loop: one iteration (sleep, then the body under the lock).
\* The clock of the model stands still while the body does not run: before
\* the match, and with no player in the store, nobody holds a time stamp.
TickRuns == game_started /\ Len(players) > 0

Tick(rnd) ==
    /\ ~game_over
    /\ now < MaxTicks * TickMs
    /\ Commit(tick_body([Server EXCEPT !.now = IF TickRuns THEN now + TickMs ELSE now], rnd),
              "tick")

\* the body of world_broadcast_loop with the respawn countdown before the
\* fall check
TickFunctionSwapped(k, s, rnd) ==
    CASE k = 1 -> tick_respawns(s, rnd)
      [] k = 2 -> tick_fall_deaths(s)
      [] k = 3 -> tick_projectiles(s, rnd)
      [] k = 4 -> tick_power_ups(s, rnd)
      [] k = 5 -> tick_dropped_weapons(s)
      [] k = 6 -> broadcast(s, build_world_msg(s))

\* the k-th statement of the body of world_broadcast_loop
TickFunction(k, s, rnd) ==
    CASE k = 1 -> tick_fall_deaths(s)
      [] k = 2 -> tick_respawns(s, rnd)
      [] k = 3 -> tick_projectiles(s, rnd)
      [] k = 4 -> tick_power_ups(s, rnd)
      [] k = 5 -> tick_dropped_weapons(s)
      [] k = 6 -> broadcast(s, build_world_msg(s))

\* world_broadcast_loop statement by statement: after the sleep it takes the
\* lock and tests game_started and players; inside the lock each step runs
\* one statement, and the broadcast leaves the lock.  ("tick" names the
\* broadcast, "tick_k" the k-th tick function, "tick_0" the test.)  The
\* runs end at the time until.
TickPart(rnd, until) ==
    \/ /\ tick_pc = 0
       /\ ~game_over
       /\ now < until
       /\ Store([Server EXCEPT !.now = IF TickRuns THEN now + TickMs ELSE now],
                "tick_0", raised, IF TickRuns THEN 1 ELSE 0)
       /\ tick_from' =
              IF TickRuns
              THEN [s |-> [Server EXCEPT !.now = now + TickMs], rnd |-> rnd]
              ELSE <<>>
    \/ /\ tick_pc \in 1..6
       /\ rnd = tick_from.rnd
       /\ Store(TickFunction(tick_pc, Server, rnd),
                IF tick_pc = 6 THEN "tick" ELSE "tick_k", raised, (tick_pc + 1) % 7)
       /\ tick_from' = IF tick_pc = 6 THEN <<>> ELSE tick_from

\* the random draws a tick can consume: none while the body does not run
TickRnds == IF TickRuns THEN Rnds ELSE {NoRnd}

\* the random draws a ready message can consume: only start_game draws
ReadyRnds(pid, r) ==
    IF r /\ check_all_ready(msg_ready(Server, pid, r, NoRnd)) /\ ~game_started
    THEN Rnds ELSE {NoRnd}

AcceptStep == Accept
JoinStep == \E pid \in clients : Join(pid)
SelectTeamStep == \E pid \in clients, tid \in TeamInputs : SelectTeam(pid, tid)
ReadyStep == \E pid \in clients, r \in BOOLEAN : \E rnd \in ReadyRnds(pid, r) : Ready(pid, r, rnd)
StateStep == \E pid \in clients, st \in StateInputs : State(pid, st)
FellOffStep == \E pid \in clients : FellOff(pid)
PickWeaponStep ==
    \E pid \in clients, d \in (DOMAIN dropped_weapons) \cup {next_drop_id} : PickWeapon(pid, d)
ThrowStep == \E pid \in clients, f \in FacingInputs : Throw(pid, f)
BuyWeaponStep == \E pid \in clients, w \in WeaponInputs : BuyWeapon(pid, w)
DisconnectStep == \E pid \in clients : Disconnect(pid)
LineStep ==
    \E pid \in clients,
       kind \in {"not_utf8", "not_json", "no_type", "unknown_type", "not_object",
                 "team_id", "state_y", "drop_id", "weapon_id"} : Line(pid, kind)
TickStep == \E rnd \in TickRnds : Tick(rnd)

\* The whole server: every critical section, from construction
Next ==
    \/ AcceptStep
    \/ JoinStep
    \/ SelectTeamStep
    \/ ReadyStep
    \/ StateStep
    \/ FellOffStep
    \/ PickWeaponStep
    \/ ThrowStep
    \/ BuyWeaponStep
    \/ DisconnectStep
    \/ LineStep
    \/ TickStep

Spec == Init /\ [][Next]_vars

-----------------------------------------------------------------------------
(* The lobby: connections, joins, team selection, ready, disconnects.  The
   generator is run with one seed. *)

LobbyRnd == [f |-> 0, u |-> 0, shuffle |-> Shuffled]

\* the clients send their lobby messages while they see the lobby
LobbyJoinStep == ~game_started /\ JoinStep

LobbySelectTeamStep == ~game_started /\ SelectTeamStep

LobbyReadyStep ==
    /\ ~game_started
    /\ \E pid \in clients, r \in BOOLEAN :
          Ready(pid, r, IF ReadyRnds(pid, r) = {NoRnd} THEN NoRnd ELSE LobbyRnd)

LobbyTickStep == Tick(IF TickRuns THEN LobbyRnd ELSE NoRnd)

NextLobby ==
    \/ AcceptStep
    \/ LobbyJoinStep
    \/ LobbySelectTeamStep
    \/ LobbyReadyStep
    \/ DisconnectStep
    \/ LobbyTickStep

SpecLobby == Init /\ [][NextLobby]_vars

\* The start: the same run, with clients that keep sending their lobby
\* messages after the match has started
NextStart ==
    \/ AcceptStep
    \/ JoinStep
    \/ SelectTeamStep
    \/ \E pid \in clients, r \in BOOLEAN :
          Ready(pid, r, IF ReadyRnds(pid, r) = {NoRnd} THEN NoRnd ELSE LobbyRnd)
    \/ DisconnectStep
    \/ LobbyTickStep

SpecStart == Init /\ [][NextStart]_vars

-----------------------------------------------------------------------------
(* The match.  Its runs start in states the server reaches once the match is
   on: connections 0, 1 and 2 were accepted, 0 and 1 joined, chose the teams
   0 and 1 and got ready.  The clock of the model starts there. *)

\* the server when connection 2 has been accepted
Accepted ==
    [players |-> <<>>, clients |-> {0, 1, 2}, projectiles |-> <<>>,
     power_ups |-> <<>>, dropped_weapons |-> <<>>, objects |-> <<>>,
     next_id |-> 3, next_proj_id |-> 0, next_drop_id |-> 0,
     game_over |-> FALSE, game_started |-> FALSE, team_kills |-> <<>>,
     now |-> 0, out |-> <<>>]

\* the server right after the ready message that started the match
Started(rnd) ==
    LET s1 == msg_join(msg_join(Accepted, 0), 1)
        s2 == msg_select_team(msg_select_team(s1, 0, 0), 1, 1)
        s3 == msg_ready(msg_ready(s2, 0, TRUE, rnd), 1, TRUE, rnd)
    IN  [s3 EXCEPT !.out = <<>>]

\* A bullet of player 1's pistol, shot to the right from (130, 100) eleven
\* ticks ago: 11 * 11 sub-steps of 1909 milli-pixels
OldBullet ==
    [Projectile(40, 1, 1, 138 * MPX + 121 * 1909, 108 * MPX, 7, 0,
                ProjLifetime(WEAPONS["pistol"]) - 11 * TickMs, 20, "pistol", 240)
     EXCEPT !.dist = 121 * 1909]

\* Later in the match: each team has k kills, player 0 stands at (100, 100)
\* with 20 hp, player 1 stands at (130, 100) facing it and is hurt (20 hp),
\* unhurt, or dead for all but one tick of RESPAWN_DELAY.  The spawn shields
\* have run out, power-up 0 is about to expire and power-up 1 about to come
\* back.  Player 1 holds a sniper rifle bought from the coins of its kills.
\* Connection 2 has been closed.
Late(status, k) ==
    LET s  == Started(NoRnd)
        p0 == [s.players[1] EXCEPT
                 !.x = 100, !.y = 100, !.hp = 20, !.shield_until = 0,
                 !.kills = k, !.coins = STARTING_COINS + k * KILL_COIN_REWARD]
        p1 == [s.players[2] EXCEPT
                 !.x = 130, !.y = 100, !.facing = "left", !.shield_until = 0,
                 !.kills = k, !.coins = STARTING_COINS + k * KILL_COIN_REWARD,
                 !.hp = CASE status = "hurt" -> 20 [] status = "dead" -> 0
                          [] OTHER -> PLAYER_MAX_HP,
                 !.alive = (status # "dead"),
                 !.respawn_timer = IF status = "dead" THEN TickMs ELSE 0]
        p1s == [p1 EXCEPT !.weapon = "sniper",
                          !.coins = @ - WEAPONS["sniper"].price]
    IN  [s EXCEPT
           !.clients = {0, 1},
           !.players = <<p0, IF status = "hurt" /\ k > 0 THEN p1s ELSE p1>>,
           !.team_kills = <<[team |-> 0, kills |-> k], [team |-> 1, kills |-> k]>>,
           !.power_ups[0].lifetime_timer = TickMs,
           !.power_ups[1] = [@ EXCEPT !.active = FALSE, !.lifetime_timer = 0,
                                      !.respawn_timer = TickMs],
           !.projectiles = (40 :> OldBullet),
           !.next_proj_id = 41]

\* the kills of each team in the states of Late: none, and one below KILL_LIMIT
LateKills == {0, KILL_LIMIT - 1}

MatchStates ==
    {Started(LobbyRnd)}
        \cup {Late("hurt", k) : k \in LateKills}
        \cup {Late("unhurt", 0), Late("dead", KILL_LIMIT - 1)}

InitMatch ==
    \E s \in MatchStates :
        /\ players = s.players
        /\ clients = s.clients
        /\ projectiles = s.projectiles
        /\ power_ups = s.power_ups
        /\ dropped_weapons = s.dropped_weapons
        /\ objects = s.objects
        /\ next_id = s.next_id
        /\ next_proj_id = s.next_proj_id
        /\ next_drop_id = s.next_drop_id
        /\ game_over = s.game_over
        /\ game_started = s.game_started
        /\ team_kills = s.team_kills
        /\ now = s.now
        /\ op = "init"
        /\ out = <<>>
        /\ game_over_sent = 0
        /\ killed_since =
               [p \in 0..MaxConn |->
                   IF HasP(s.players, p) /\ ~GetP(s.players, p).alive THEN 1 ELSE 0]
        /\ msgs = 0
        /\ raised = {}
        /\ tick_pc = 0
        /\ tick_from = <<>>
        /\ launch_teams = NUM_TEAMS

\* the generator of the match runs with two seeds
MatchRnds == {LobbyRnd, [LobbyRnd EXCEPT !.f = 1, !.u = 1]}

CombatStateStep == \E pid \in clients, st \in CombatStates : State(pid, st)
MatchTickStep == \E rnd \in MatchRnds : Tick(rnd)

NextMatch ==
    \/ JoinStep
    \/ CombatStateStep
    \/ FellOffStep
    \/ PickWeaponStep
    \/ ThrowStep
    \/ DisconnectStep
    \/ MatchTickStep

SpecMatch == InitMatch /\ [][NextMatch]_vars

-----------------------------------------------------------------------------
(* The shop: the match with clients that walk around the shop and buy *)

ShopStateStep == \E pid \in clients, st \in ShopStates : State(pid, st)

NextShop ==
    \/ ShopStateStep
    \/ BuyWeaponStep
    \/ FellOffStep
    \/ MatchTickStep

SpecShop == InitMatch /\ [][NextShop]_vars

-----------------------------------------------------------------------------
(* The firing range: the match with two players 15 px apart, player 0 at
   (100, 100) and player 1 at (115, 100), where player 1 is an enemy without
   shield, an enemy under its spawn shield, a dead enemy, or a team mate of
   player 0.  The clients shoot, step into the line of fire and walk to the
   right edge of the world. *)

\* the server right after the ready message that started a match of one team
StartedMates(rnd) ==
    LET s1 == msg_join(msg_join(Accepted, 0), 1)
        s2 == msg_select_team(msg_select_team(s1, 0, 0), 1, 0)
        s3 == msg_ready(msg_ready(s2, 0, TRUE, rnd), 1, TRUE, rnd)
    IN  [s3 EXCEPT !.out = <<>>]

FireKinds == {"enemy", "shielded", "dead", "mate", "cover", "breaking"}

\* A bullet of player 0's pistol, shot to the right from (20, 240) eleven
\* ticks ago: its fifth sub-step of the next tick reaches the range of 240 px
\* at x = 268.534, inside the hitboxes of a player at (272, 240) and of the
\* crate at (272, 256)
SpentBullet ==
    [Projectile(40, 0, 0, 28 * MPX + 121 * 1909, 248 * MPX, 7, 0,
                ProjLifetime(WEAPONS["pistol"]) - 11 * TickMs, 20, "pistol", 240)
     EXCEPT !.dist = 121 * 1909]

\* Three pistol bullets in the air, one tick after they were shot: bullet 40
\* of player 0 and, one pixel behind it, bullet 42 of player 1 fly at the
\* crate at (272, 256); bullet 41 of player 2, who has left the match, flies
\* at the crate at (288, 208)
Volley ==
    LET b(id, owner, team, x, y) ==
            [Projectile(id, owner, team, x * MPX, y * MPX, 7, 0,
                        ProjLifetime(WEAPONS["pistol"]) - TickMs, 20, "pistol", 240)
             EXCEPT !.dist = 11 * 1909]
    IN  (40 :> b(40, 0, 0, 250, 248)) @@ (41 :> b(41, 2, 1, 270, 200))
            @@ (42 :> b(42, 1, 1, 249, 248))

\* The firing range: player 0 at (100, 100), player 1 at (115, 100) as an
\* enemy, shielded, dead or a team mate.  Under cover, player 1 stands in
\* front of the crate at (272, 256), player 0 at (244, 240) has a spent
\* bullet in the air.  While the crates are breaking, the players stand as
\* enemies and the volley is in the air.
Fire(kind) ==
    LET s  == IF kind = "mate" THEN StartedMates(NoRnd) ELSE Started(NoRnd)
        p0 == [s.players[1] EXCEPT !.x = IF kind = "cover" THEN 244 ELSE 100,
                                   !.y = IF kind = "cover" THEN 240 ELSE 100,
                                   !.shield_until = 0]
        p1 == [s.players[2] EXCEPT
                 !.x = IF kind = "cover" THEN 272 ELSE 115,
                 !.y = IF kind = "cover" THEN 240 ELSE 100, !.facing = "left",
                 !.shield_until = IF kind = "shielded" THEN RESPAWN_SHIELD ELSE 0,
                 !.hp = IF kind = "dead" THEN 0 ELSE PLAYER_MAX_HP,
                 !.alive = (kind # "dead"),
                 !.respawn_timer = IF kind = "dead" THEN RESPAWN_DELAY ELSE 0]
    IN  [s EXCEPT !.clients = {0, 1}, !.players = <<p0, p1>>,
                  !.projectiles = CASE kind = "cover" -> (40 :> SpentBullet)
                                    [] kind = "breaking" -> Volley
                                    [] OTHER -> <<>>,
                  !.next_proj_id = CASE kind = "cover" -> 41
                                     [] kind = "breaking" -> 43
                                     [] OTHER -> @]

FireStates == {Fire(kind) : kind \in FireKinds}

\* a run that starts in one of the server states of S, with the history of
\* the deaths it holds
InitFrom(S) ==
    \E s \in S :
        /\ players = s.players
        /\ clients = s.clients
        /\ projectiles = s.projectiles
        /\ power_ups = s.power_ups
        /\ dropped_weapons = s.dropped_weapons
        /\ objects = s.objects
        /\ next_id = s.next_id
        /\ next_proj_id = s.next_proj_id
        /\ next_drop_id = s.next_drop_id
        /\ game_over = s.game_over
        /\ game_started = s.game_started
        /\ team_kills = s.team_kills
        /\ now = s.now
        /\ op = "init"
        /\ out = <<>>
        /\ game_over_sent = 0
        /\ killed_since =
               [p \in 0..MaxConn |->
                   IF HasP(s.players, p) /\ ~GetP(s.players, p).alive THEN 1 ELSE 0]
        /\ msgs = 0
        /\ raised = {}
        /\ tick_pc = 0
        /\ tick_from = <<>>
        /\ launch_teams = NUM_TEAMS

InitFire == InitFrom(FireStates)

\* state messages on the range: a step into the line of fire, and the right
\* edge of the world
RangeStates ==
    {[x |-> 105, y |-> 100, vx |-> 1, vy |-> 0, on_ground |-> TRUE, facing |-> "right"],
     [x |-> 1140, y |-> 100, vx |-> 0, vy |-> 0, on_ground |-> TRUE, facing |-> "right"]}

RangeStateStep == \E pid \in clients, st \in RangeStates : State(pid, st)

FireTickStep == Tick(LobbyRnd)

NextFire ==
    \/ RangeStateStep
    \/ ThrowStep
    \/ FireTickStep

SpecFire == InitFire /\ [][NextFire]_vars

-----------------------------------------------------------------------------
(* The crowd: more connections than MAX_PLAYERS arrive at an empty lobby, and
   every accepted connection may send join at any time. *)

\* the connections that arrive
MaxCrowd == 7

\* run: one arriving connection of the crowd, refused when the store is full
\* or the match is on
CrowdAccept ==
    /\ next_id < MaxCrowd
    /\ Commit(IF Len(players) >= MAX_PLAYERS \/ game_started
              THEN Server
              ELSE [Server EXCEPT !.next_id = @ + 1, !.clients = @ \cup {next_id}],
              "accept")

NextCrowd == CrowdAccept \/ JoinStep

SpecCrowd == Init /\ [][NextCrowd]_vars

-----------------------------------------------------------------------------
(* The protocol: lines that are no well-formed message.  The runs start in
   the lobby, when connections 0 and 1 have joined and 2 has not, and at the
   start of the match. *)

InitProto ==
    InitFrom({[msg_join(msg_join(Accepted, 0), 1) EXCEPT !.out = <<>>],
              Started(LobbyRnd)})

NextProto == LineStep \/ JoinStep \/ DisconnectStep

SpecProto == InitProto /\ [][NextProto]_vars

-----------------------------------------------------------------------------
(* The armoury: every message type, from every connection, in the lobby and
   in the match.  The runs start in the lobby when connections 0 and 1 have
   joined and chosen their teams, at the start of the match, and late in the
   match; connection 2 is open and has never joined. *)

\* Late in the match: player 0 has bought a shotgun and holds the rapid-fire
\* power-up; player 1 is hurt or dead.  Four weapons lie on the ground: drop 0
\* can be picked up and lies at player 0's feet, drop 1 lies there too but was
\* dropped less than 0.6 s ago, drop 2 lies 50 px and drop 3 51 px to the
\* right of player 0's centre.
Armed(status) ==
    LET s    == Late(status, KILL_LIMIT - 1)
        ripe == [lifetime |-> DROPPED_WEAPON_LIFE - 1000, pickup_delay |-> -400]
    IN  [s EXCEPT
           !.clients = {0, 1, 2},
           !.players[1] = [@ EXCEPT !.weapon = "shotgun",
                                    !.coins = @ - WEAPONS["shotgun"].price,
                                    !.rapid_fire_until = 3000],
           !.dropped_weapons =
               (0 :> (ripe @@ DroppedWeapon(0, "auto", 100, 108)))
                 @@ (1 :> DroppedWeapon(1, "semi_auto", 100, 108))
                 @@ (2 :> (ripe @@ DroppedWeapon(2, "sniper", 150, 108)))
                 @@ (3 :> (ripe @@ DroppedWeapon(3, "auto", 151, 108))),
           !.next_drop_id = 4]

InitFrame ==
    InitFrom({[msg_select_team(msg_join(msg_join(Accepted, 0), 1), 0, 0)
                  EXCEPT !.out = <<>>],
              Started(LobbyRnd), Armed("hurt"), Armed("dead")})

NextFrame ==
    \/ \E pid \in clients, tid \in -1..NUM_TEAMS : SelectTeam(pid, tid)
    \/ \E pid \in clients, r \in BOOLEAN : Ready(pid, r, LobbyRnd)
    \/ RangeStateStep
    \/ FellOffStep
    \/ PickWeaponStep
    \/ ThrowStep
    \/ BuyWeaponStep

SpecFrame == InitFrame /\ [][NextFrame]_vars

-----------------------------------------------------------------------------
(* The lock: world_broadcast_loop runs statement by statement, and the
   critical sections of the readers wait for the lock.  The runs start in
   the lobby, at the start of a match, with the spawn shields up, and late
   in the match. *)

InitLock ==
    InitFrom({[msg_join(msg_join(Accepted, 0), 1) EXCEPT !.out = <<>>],
              Started(LobbyRnd), Late("hurt", KILL_LIMIT - 1), Late("dead", KILL_LIMIT - 1)})

NextLock ==
    \/ \E rnd \in MatchRnds : TickPart(rnd, MaxTicks * TickMs)
    \/ CombatStateStep
    \/ FellOffStep
    \/ ThrowStep
    \/ DisconnectStep

SpecLock == InitLock /\ [][NextLock]_vars

-----------------------------------------------------------------------------
(* The launch: main.run hands the team count of the command line to
   GameServer.run, which prints it; the lobby follows. *)

InitLaunch ==
    \E n \in {NUM_TEAMS - 1, NUM_TEAMS, NUM_TEAMS + 1} :
        /\ players = <<>>
        /\ clients = {}
        /\ projectiles = <<>>
        /\ power_ups = <<>>
        /\ dropped_weapons = <<>>
        /\ objects = <<>>
        /\ next_id = 0
        /\ next_proj_id = 0
        /\ next_drop_id = 0
        /\ game_over = FALSE
        /\ game_started = FALSE
        /\ team_kills = <<>>
        /\ now = 0
        /\ op = "init"
        /\ out = <<>>
        /\ game_over_sent = 0
        /\ killed_since = [p \in 0..MaxConn |-> 0]
        /\ msgs = 0
        /\ raised = {}
        /\ tick_pc = 0
        /\ tick_from = <<>>
        /\ launch_teams = n

NextLaunch ==
    \/ AcceptStep
    \/ JoinStep
    \/ \E pid \in clients, tid \in -1..NUM_TEAMS : SelectTeam(pid, tid)

SpecLaunch == InitLaunch /\ [][NextLaunch]_vars

-----------------------------------------------------------------------------
(* The wait of the dead: world_broadcast_loop keeps running, statement by
   statement, for a whole respawn delay and MaxTicks passes more, while
   players may leave.  At the start no projectile is in the air and player 1,
   inside a rapid-fire window, has just fallen off the map, or has one pass
   left to wait. *)

InitRespawn ==
    InitFrom({[kill_player_env([Late("hurt", KILL_LIMIT - 1)
                                  EXCEPT !.players[2].rapid_fire_until = 2 * RESPAWN_DELAY],
                               1)
                 EXCEPT !.out = <<>>, !.projectiles = <<>>],
              [Late("dead", KILL_LIMIT - 1)
                 EXCEPT !.players[2].rapid_fire_until = 2 * RESPAWN_DELAY,
                        !.projectiles = <<>>]})

\* world_broadcast_loop: while not self.game_over
Pass == \E rnd \in MatchRnds : TickPart(rnd, RESPAWN_DELAY + MaxTicks * TickMs)

NextRespawn ==
    \/ Pass
    \/ DisconnectStep

\* the thread of world_broadcast_loop keeps being scheduled
SpecRespawn == InitRespawn /\ [][NextRespawn]_vars /\ WF_vars(Pass)

(* The deserted match: the match has started and both players have left.
   What they leave behind is the fresh match, the late match with a bullet in
   the air and power-ups about to turn, the ground with dropped weapons, or
   the volley at the breakable objects.  Connection 2, accepted in the lobby,
   is still open and has never joined, or only two connections were ever
   accepted. *)

InitDesert ==
    InitFrom({[s EXCEPT !.players = <<>>, !.clients = c[1], !.next_id = c[2]]
                 : s \in {Started(LobbyRnd), Started(NoRnd), Late("hurt", 0),
                          Late("hurt", KILL_LIMIT - 1), Armed("hurt"),
                          Fire("breaking")},
                   c \in {<<{2}, 3>>, <<{}, 2>>}})

SpecDesert == InitDesert /\ [][NextStart]_vars

(* The ground: weapons lie at the players' feet while both players ask for
   them, shoot, move and fall, and world_broadcast_loop runs statement by
   statement.  Drop 0, in the reach of both players, has one pass left to
   live or nearly all of its life. *)

InitGround ==
    InitFrom({[Armed(status) EXCEPT !.dropped_weapons[0].lifetime = life]
                 : status \in {"hurt", "dead"},
                   life \in {TickMs, DROPPED_WEAPON_LIFE - 1000}})

NextGround ==
    \/ \E pid \in clients, d \in 0..next_drop_id : PickWeapon(pid, d)
    \/ ThrowStep
    \/ CombatStateStep
    \/ \E rnd \in MatchRnds : TickPart(rnd, MaxTicks * TickMs)

SpecGround == InitGround /\ [][NextGround]_vars

(* The power-up cycle: world_broadcast_loop keeps running, statement by
   statement, for the longest respawn delay of a power-up and MaxTicks + 1
   passes more.  At the start power-up 0 is about to expire and power-up 1
   about to come back; player 0 stands at (100, 100) or on power-up 2. *)

CycleMs == (POWER_UP_RESPAWN_TIME * 14) \div 10 + (MaxTicks + 1) * TickMs

InitCycle ==
    LET s == [Late("hurt", 0) EXCEPT !.projectiles = <<>>]
    IN  InitFrom({s, [s EXCEPT !.players[1].x = s.power_ups[2].spawn_x,
                               !.players[1].y = s.power_ups[2].spawn_y]})

\* world_broadcast_loop: while not self.game_over.  The generator gives the
\* power-ups with an even id the shortest delay and lifetime, the others the
\* longest.
Cycle == \E rnd \in {LobbyRnd} : TickPart(rnd, CycleMs)

\* the thread of world_broadcast_loop keeps being scheduled
SpecCycle == InitCycle /\ [][Cycle]_vars /\ WF_vars(Cycle)

-----------------------------------------------------------------------------
(* Properties *)

\* the connection ids of a run
ConnIds == 0..(MaxConn - 1)

\* the positions of the messages of type t in a socket log
At(log, t) == {j \in 1..Len(log) : log[j].type = t}

\* C1: game_over is broadcast at most once in any run; a win check made when
\* game_over is already set (a second lethal hit of the same tick_projectiles
\* pass included) broadcasts nothing.
C1_GameOverOnce == game_over_sent <= 1

\* every team counter is below KILL_LIMIT
AllBelow(tk) == \A i \in 1..Len(tk) : tk[i].kills < KILL_LIMIT

AliveAt(pid, x, y) ==
    /\ HasP(players, pid)
    /\ GetP(players, pid).alive
    /\ GetP(players, pid).x = x
    /\ GetP(players, pid).y = y

\* the weapon is one of WEAPONS and player pid can pay it
CanPay(pid, w) == w \in WeaponIds /\ GetP(players, pid).coins >= WEAPONS[w].price

\* the only message of log is a message of type t to pid alone
Reply(log, pid, t) == Len(log) = 1 /\ log[1].type = t /\ log[1].to = {pid}

\* C3 (as claimed): an alive player with enough coins at (524, 256), dx = 60
\* from the shop at (464, 256), has buy_weapon accepted with weapon_bought;
\* at (525, 256) the buy is rejected with buy_failed{too_far}.
C3_BoundaryAtShopSign ==
    [][\A pid \in ConnIds, w \in WeaponInputs :
          BuyWeapon(pid, w) /\ game_started =>
             /\ AliveAt(pid, 524, 256) /\ CanPay(pid, w)
                   => Reply(out', pid, "weapon_bought")
             /\ AliveAt(pid, 525, 256) /\ CanPay(pid, w)
                   => Reply(out', pid, "buy_failed") /\ out'[1].reason = "too_far"]_vars

\* C3 (amended): the distance is taken from the player's position to
\* (SHOP_X, SHOP_Y - PLAYER_H) = (464, 240).  An alive player with enough
\* coins at (524, 240), exactly SHOP_RADIUS away, has buy_weapon accepted with
\* weapon_bought; at (525, 240), and at (524, 256) and (525, 256), the buy is
\* rejected with buy_failed{too_far}.
C3_BoundaryAbovePlatform ==
    [][\A pid \in ConnIds, w \in WeaponInputs :
          BuyWeapon(pid, w) /\ game_started =>
             /\ AliveAt(pid, 524, 240) /\ CanPay(pid, w)
                   => Reply(out', pid, "weapon_bought")
             /\ \A pos \in {<<525, 240>>, <<524, 256>>, <<525, 256>>} :
                   AliveAt(pid, pos[1], pos[2]) /\ CanPay(pid, w)
                       => Reply(out', pid, "buy_failed") /\ out'[1].reason = "too_far"]_vars

\* a sniper rifle was just sold to a player who stands at (524, 240)
C3_Witness ==
    /\ op = "buy_weapon"
    /\ \E pid \in ConnIds :
          /\ AliveAt(pid, 524, 240)
          /\ Reply(out, pid, "weapon_bought")
          /\ out[1].weapon_id = "sniper"

\* the entity state of the server
Entities ==
    <<players, projectiles, power_ups, dropped_weapons, objects, team_kills,
      next_proj_id, next_drop_id, game_started, game_over>>

\* C4: for an alive player within shop range during the match, buy_weapon
\* with coins below the price replies buy_failed{insufficient_coins} and
\* leaves coins and weapon as they are; with coins >= price it lowers the
\* coins by the price, sets the weapon and replies weapon_bought.  A rejected
\* buy (too_far, insufficient_coins) changes no entity state.
C4_BuyOutcomes ==
    [][\A pid \in ConnIds, w \in WeaponIds :
          /\ BuyWeapon(pid, w)
          /\ game_started
          /\ HasP(players, pid)
          /\ GetP(players, pid).alive
          => LET p  == GetP(players, pid)
                 dx == p.x - SHOP_X
                 dy == p.y - (SHOP_Y - PLAYER_H)
                 in_range == dx * dx + dy * dy <= SHOP_RADIUS * SHOP_RADIUS
             IN  /\ in_range /\ p.coins < WEAPONS[w].price
                       => /\ Reply(out', pid, "buy_failed")
                          /\ out'[1].reason = "insufficient_coins"
                          /\ UNCHANGED Entities
                 /\ in_range /\ p.coins >= WEAPONS[w].price
                       => /\ Reply(out', pid, "weapon_bought")
                          /\ out'[1].weapon_id = w
                          /\ out'[1].coins = p.coins - WEAPONS[w].price
                          /\ players' = PutP(players, pid,
                                 [p EXCEPT !.coins = p.coins - WEAPONS[w].price,
                                           !.weapon = w])
                 /\ ~in_range
                       => /\ Reply(out', pid, "buy_failed")
                          /\ out'[1].reason = "too_far"
                          /\ UNCHANGED Entities]_vars

\* a player in range who holds fewer coins than the price was just refused
C4_Witness ==
    /\ op = "buy_weapon"
    /\ \E pid \in ConnIds :
          /\ AliveAt(pid, 524, 240)
          /\ GetP(players, pid).coins = STARTING_COINS
          /\ GetP(players, pid).weapon = "pistol"
          /\ Reply(out, pid, "buy_failed")
          /\ out[1].reason = "insufficient_coins"

\* at least two registered players, each with a team and ready
AllReady(ps) ==
    /\ Len(ps) >= 2
    /\ \A i \in 1..Len(ps) : ps[i].team_id >= 0 /\ ps[i].ready

\* C5: a ready message that is applied (sent in the lobby by a registered
\* player who has a team) starts the match if and only if, after it is
\* applied, there are at least 2 registered players and each of them has
\* team_id >= 0 and ready = true: two players, both with a team and both
\* ready, start the match, one player alone never does.  A ready message
\* that is not applied starts nothing.
\* (For each sender and value: the outcome holds, or the step is not this
\* sender's ready message.)
C5_StartTrigger ==
    [][op' = "ready" =>
          \A pid \in ConnIds, r \in BOOLEAN :
             \/ IF HasP(players, pid) /\ ~game_started /\ GetP(players, pid).team_id >= 0
                THEN /\ GetP(players', pid).ready = r
                     /\ game_started' <=> AllReady(players')
                     /\ Len(players') = 1 => ~game_started'
                ELSE UNCHANGED <<players, game_started>>
             \/ ~Ready(pid, r, LobbyRnd)]_vars

\* the second of exactly two players, both with a team, got ready and the
\* match started
C5_Witness ==
    /\ op = "ready"
    /\ game_started
    /\ Len(players) = 2
    /\ AllReady(players)
    /\ At(out, "game_start") # {}

\* C6: from one state to the next the hp of a registered player never
\* increases, except by the full heal of this player's respawn.
C6_HpNeverIncreases ==
    [][\A pid \in ConnIds :
          /\ HasP(players, pid)
          /\ HasP(players', pid)
          /\ GetP(players', pid).hp > GetP(players, pid).hp
          => /\ ~GetP(players, pid).alive
             /\ GetP(players', pid).hp = PLAYER_MAX_HP
             /\ \E j \in At(out', "respawn") : out'[j].player_id = pid]_vars

\* C7: each death is processed once.  A player_killed is broadcast only for
\* a victim that was alive before the critical section, a dead player has
\* had exactly one player_killed since its last respawn, and no player has
\* had more than one.
C7_OneKillPerDeath ==
    /\ [](\A pid \in ConnIds :
            /\ killed_since[pid] <= 1
            /\ HasP(players, pid) /\ ~GetP(players, pid).alive => killed_since[pid] = 1)
    /\ [][\A j \in At(out', "player_killed") :
            /\ HasP(players, out'[j].victim_id)
            /\ GetP(players, out'[j].victim_id).alive
            /\ \A k \in At(out', "player_killed") :
                  out'[k].victim_id = out'[j].victim_id => k = j]_vars

\* C8: whenever the lock is free, each registered player is alive with hp
\* in 1..PLAYER_MAX_HP, or dead with hp = 0 and a running respawn timer.
C8_AliveOrDead ==
    \A i \in 1..Len(players) :
       \/ /\ players[i].alive
          /\ players[i].hp \in 1..PLAYER_MAX_HP
       \/ /\ ~players[i].alive
          /\ players[i].hp = 0
          /\ players[i].respawn_timer > 0

\* a tick in which one bullet killed a player and another one only hurt its
\* target
C8_Witness ==
    /\ op = "tick"
    /\ \E i \in 1..Len(players) :
          ~players[i].alive /\ players[i].respawn_timer = RESPAWN_DELAY
    /\ \E i \in 1..Len(players) :
          players[i].alive /\ players[i].hp = PLAYER_MAX_HP - WEAPONS["pistol"].damage
    /\ At(out, "projectile_hit") # {}

\* C9: at the end of every tick whose body ran, each power-up is active with
\* lifetime_timer > 0 and no respawn countdown (respawn_timer <= 0), or
\* inactive with respawn_timer > 0.
C9_PowerUpExclusive ==
    op = "tick" /\ At(out, "world") # {} =>
        \A i \in DOMAIN power_ups :
           \/ /\ power_ups[i].active
              /\ power_ups[i].lifetime_timer > 0
              /\ power_ups[i].respawn_timer <= 0
           \/ /\ ~power_ups[i].active
              /\ power_ups[i].respawn_timer > 0

\* a tick in which power-up 0 expired, power-up 1 came back and a third one
\* was picked up
C9_Witness ==
    /\ op = "tick"
    /\ At(out, "powerup_expired") # {}
    /\ At(out, "powerup_pickup") # {}
    /\ ~power_ups[0].active
    /\ power_ups[1].active
    /\ power_ups[1].respawn_timer <= 0

\* C10: at the end of every tick each projectile in the store has
\* dist < range_px and lifetime > 0: a projectile that reaches its range or
\* the end of its lifetime leaves the store in the same tick.
C10_ProjectileInRange ==
    op = "tick" =>
        \A id \in DOMAIN projectiles :
           /\ projectiles[id].dist < projectiles[id].range_px * MPX
           /\ projectiles[id].lifetime > 0

\* a tick that removed the bullet at the end of its range and moved a
\* younger one
C10_Witness ==
    /\ op = "tick"
    /\ OldBullet.proj_id \notin DOMAIN projectiles
    /\ \E id \in DOMAIN projectiles :
          /\ projectiles[id].dist > 0
          /\ projectiles[id].lifetime < ProjLifetime(WeaponOf(projectiles[id].weapon_id))

\* the sub-steps of one tick of projectile p, and the advance of each
PathSteps(p) == Max(1, CeilDiv(Hypot(TickDisp(p.vx), TickDisp(p.vy)), STEP))
PathDx(p) == Quot(TickDisp(p.vx), PathSteps(p))
PathDy(p) == Quot(TickDisp(p.vy), PathSteps(p))
PathLen(p) == Hypot(TickDisp(p.vx), TickDisp(p.vy)) \div PathSteps(p)

\* message m reports a hit at one of the sub-step positions of projectile p
OnPath(p, m) ==
    \E k \in 1..PathSteps(p) :
        m.x = p.x + k * PathDx(p) /\ m.y = p.y + k * PathDy(p)

\* the messages of log that report a hit of projectile p: a projectile_hit
\* names it, an object_hit gives the position of the bullet
HitsOf(p, log) ==
    {j \in At(log, "projectile_hit") : log[j].proj_id = p.proj_id}
        \cup {j \in At(log, "object_hit") : OnPath(p, log[j])}

\* projectile p reaches its range within the sub-steps of this tick
ReachesRange(p) == p.dist + PathSteps(p) * PathLen(p) >= p.range_px * MPX

\* the sub-steps of this tick take projectile p out of the world bounds
LeavesWorld(p) ==
    LET ex == p.x + PathSteps(p) * PathDx(p)
        ey == p.y + PathSteps(p) * PathDy(p)
    IN  ex < -100 * MPX \/ ex > 1150 * MPX \/ ey < -200 * MPX \/ ey > 650 * MPX

\* C11 (as claimed): whenever a projectile leaves the store, it has reached
\* its range (dist >= range_px) or it has hit a player or a breakable object.
C11_RemovedByRangeOrHit ==
    [][\A id \in (DOMAIN projectiles) \ (DOMAIN projectiles') :
          \/ ReachesRange(projectiles[id])
          \/ HitsOf(projectiles[id], out') # {}]_vars

\* C11 (amended): whenever a projectile leaves the store, it has reached its
\* range (dist >= range_px), it has hit a player or a breakable object, or it
\* has left the world bounds (x < -100, x > 1150, y < -200 or y > 650).
C11_RemovedByRangeHitOrWorld ==
    [][\A id \in (DOMAIN projectiles) \ (DOMAIN projectiles') :
          \/ ReachesRange(projectiles[id])
          \/ HitsOf(projectiles[id], out') # {}
          \/ LeavesWorld(projectiles[id])]_vars

\* a tick after which the store is empty although bullets were fired at the
\* edge of the world and nothing was hit
C11_Witness ==
    /\ op = "tick"
    /\ next_proj_id > 0
    /\ projectiles = <<>>
    /\ At(out, "projectile_hit") = {}
    /\ At(out, "object_hit") = {}
    /\ \E i \in 1..Len(players) : players[i].x = 1140

\* the bullet p overlaps the box [x0, x1) x [y0, y1) (in pixels) where it is
Overlaps(p, x0, x1, y0, y1) ==
    /\ p.x + 4 * MPX > x0 * MPX
    /\ p.x < x1 * MPX
    /\ p.y + 4 * MPX > y0 * MPX
    /\ p.y < y1 * MPX

\* the straight horizontal flight of p in this tick touches the box
Reaches(p, x0, x1, y0, y1) ==
    LET ex == p.x + PathSteps(p) * PathDx(p)
    IN  /\ p.y + 4 * MPX > y0 * MPX
        /\ p.y < y1 * MPX
        /\ IF p.vx > 0
           THEN ex + 4 * MPX > x0 * MPX /\ p.x < x1 * MPX
           ELSE p.x + 4 * MPX > x0 * MPX /\ ex < x1 * MPX

\* player plr is a target of projectile p at the time t of the tick
Eligible(p, plr, t) ==
    /\ plr.player_id # p.owner_id
    /\ plr.team_id # p.team_id
    /\ plr.alive
    /\ plr.y <= 450
    /\ t >= plr.shield_until

ReachesPlayer(p, plr) == Reaches(p, plr.x, plr.x + PLAYER_W, plr.y, plr.y + PLAYER_H)

ReachesObject(p, obj) == obj.alive /\ Reaches(p, obj.x, obj.x + 16, obj.y - 32, obj.y + 4)

\* C12: in a tick, a projectile that flies straight, with a displacement of
\* more than PLAYER_W, and whose flight of this tick reaches the hitbox of a
\* stationary eligible player from outside (crossing it or ending in it),
\* within its range and inside the world, with no other target on its way
\* and no other bullet on this player, registers a hit on this player, which
\* loses the damage.
C12_SubStepsHit ==
    [][op' = "tick" /\ At(out', "world") # {} =>
         \A id \in DOMAIN projectiles : \A i \in 1..Len(players) :
            LET p   == projectiles[id]
                plr == players[i]
            IN  /\ p.vy = 0
                /\ p.lifetime > TickMs
                /\ PathSteps(p) * PathLen(p) > PLAYER_W * MPX
                /\ Eligible(p, plr, now')
                /\ ReachesPlayer(p, plr)
                /\ ~Overlaps(p, plr.x, plr.x + PLAYER_W, plr.y, plr.y + PLAYER_H)
                /\ ~ReachesRange(p)
                /\ ~LeavesWorld(p)
                /\ \A k \in 1..Len(players) :
                      k # i /\ Eligible(p, players[k], now') => ~ReachesPlayer(p, players[k])
                /\ \A o \in DOMAIN objects : ~ReachesObject(p, objects[o])
                /\ \A q \in (DOMAIN projectiles) \ {id} : ~ReachesPlayer(projectiles[q], plr)
                => /\ \E j \in At(out', "projectile_hit") :
                         /\ out'[j].proj_id = id
                         /\ out'[j].victim_id = plr.player_id
                   /\ players'[i].hp = Max(0, plr.hp - p.damage)]_vars

\* a tick in which the sniper bullet shot from (130, 100), 42 px per tick,
\* hit the player at (100, 100), whose hitbox it would have jumped over
C12_Witness ==
    /\ op = "tick"
    /\ \E j \in At(out, "projectile_hit") :
          /\ out[j].damage = WEAPONS["sniper"].damage
          /\ out[j].victim_id = 0
          /\ out[j].x < 108 * MPX
          /\ out[j].x + 4 * MPX > 100 * MPX

\* C13: a projectile never damages an ineligible player.  In a tick, every
\* projectile_hit names a victim that is not the owner, not of the
\* projectile's team, alive and not shielded, and a player loses hp in a tick
\* only by such a hit or by a fall death.  An ineligible player does not stop
\* the projectile: a projectile whose flight of this tick reaches no eligible
\* player and no object, and that stays within its range and the world, is
\* in the store after the tick, advanced by the whole displacement.
C13_OnlyEligibleHit ==
    [][op' = "tick" /\ At(out', "world") # {} =>
         /\ \A j \in At(out', "projectile_hit") :
               /\ out'[j].proj_id \in DOMAIN projectiles
               /\ HasP(players, out'[j].victim_id)
               /\ Eligible(projectiles[out'[j].proj_id],
                           GetP(players, out'[j].victim_id), now')
         /\ \A i \in 1..Len(players) :
               players'[i].hp < players[i].hp
                  => \/ players[i].alive /\ players[i].y > 450
                     \/ \E j \in At(out', "projectile_hit") :
                           out'[j].victim_id = players[i].player_id
         /\ \A id \in DOMAIN projectiles :
               LET p == projectiles[id]
               IN  /\ p.vy = 0
                   /\ p.lifetime > TickMs
                   /\ ~ReachesRange(p)
                   /\ ~LeavesWorld(p)
                   /\ \A k \in 1..Len(players) :
                         Eligible(p, players[k], now') => ~ReachesPlayer(p, players[k])
                   /\ \A o \in DOMAIN objects : ~ReachesObject(p, objects[o])
                   => /\ id \in DOMAIN projectiles'
                      /\ projectiles'[id].x = p.x + PathSteps(p) * PathDx(p)
                      /\ projectiles'[id].dist = p.dist + PathSteps(p) * PathLen(p)]_vars

\* a tick after which a bullet of player 0, shot from the left of player 1,
\* flies on beyond the hitbox of player 1 at (115, 100), which was not hit
C13_Witness ==
    /\ op = "tick"
    /\ At(out, "projectile_hit") = {}
    /\ Len(players) = 2
    /\ players[2].x = 115
    /\ players[2].y = 100
    /\ \E id \in DOMAIN projectiles :
          /\ projectiles[id].owner_id = 0
          /\ projectiles[id].vx > 0
          /\ projectiles[id].x - projectiles[id].dist + 4 * MPX <= 115 * MPX
          /\ projectiles[id].x >= (115 + PLAYER_W) * MPX
          /\ Overlaps([projectiles[id] EXCEPT !.x = 115 * MPX], 115, 115 + PLAYER_W,
                      100, 100 + PLAYER_H)

\* the projectile_hit messages of log that name projectile id
PlayerHitsOf(id, log) == {j \in At(log, "projectile_hit") : log[j].proj_id = id}

\* the object_hit messages of log that name object o
ObjectHitsOn(o, log) == {j \in At(log, "object_hit") : log[j].obj_id = o}

\* the projectiles of the store that a step removes
Removed == (DOMAIN projectiles) \ (DOMAIN projectiles')

\* C14: no piercing.  In a tick, a projectile is named by at most one
\* projectile_hit and is absent from the store after the tick in which it hit;
\* every projectile_hit and every object_hit of the tick belongs to a
\* projectile that the tick removes, the hits of the tick being no more than
\* the removed projectiles; a hit player loses the damage of one projectile
\* for each hit (or dies), and a breakable object loses
\* BREAKABLE_PROJECTILE_DAMAGE for each object_hit that names it.  A tick adds
\* no projectile, and every step gives new projectiles ids from next_proj_id
\* on, which never decreases: a removed projectile never comes back.
C14_NoPiercing ==
    [][/\ (op' = "tick" /\ At(out', "world") # {} =>
         /\ \A j \in At(out', "projectile_hit") : out'[j].proj_id \in Removed
         /\ \A id \in DOMAIN projectiles :
               /\ Cardinality(PlayerHitsOf(id, out')) <= 1
               /\ Cardinality(HitsOf(projectiles[id], out')) >= 1 => id \in Removed
         /\ \A j \in At(out', "object_hit") :
               \E id \in Removed :
                  OnPath(projectiles[id], out'[j]) /\ PlayerHitsOf(id, out') = {}
         /\ Cardinality(At(out', "projectile_hit")) + Cardinality(At(out', "object_hit"))
               <= Cardinality(Removed)
         /\ \A o \in DOMAIN objects :
               objects'[o].hp = objects[o].hp
                                  - BREAKABLE_PROJECTILE_DAMAGE
                                      * Cardinality(ObjectHitsOn(o, out'))
         /\ \A id \in DOMAIN projectiles' : id \in DOMAIN projectiles)
       /\ next_proj_id' >= next_proj_id
       /\ \A id \in (DOMAIN projectiles') \ (DOMAIN projectiles) :
             id >= next_proj_id /\ id < next_proj_id']_vars

\* a tick in which a bullet hit a player who survived, with sub-steps of the
\* tick left behind the hitbox, and the bullet is not in the store
C14_Witness ==
    /\ op = "tick"
    /\ \E j \in At(out, "projectile_hit") :
          /\ out[j].hp > 0
          /\ out[j].proj_id \notin DOMAIN projectiles

\* C15: the number of registered players never exceeds MAX_PLAYERS.
C15_AtMostMaxPlayers == Len(players) <= MAX_PLAYERS

\* C16: no mid-match joins.  Once game_started is true, no step adds a player
\* to the store.
C16_NoMidMatchJoin ==
    [][game_started =>
         \A i \in 1..Len(players') : HasP(players, players'[i].player_id)]_vars

\* C17: after game_started is true, no step changes the team_id or the ready
\* flag of a registered player.
C17_TeamAndReadyFrozen ==
    [][game_started =>
         \A i \in 1..Len(players) :
            HasP(players', players[i].player_id) =>
               /\ GetP(players', players[i].player_id).team_id = players[i].team_id
               /\ GetP(players', players[i].player_id).ready = players[i].ready]_vars

\* the connections whose reader has ended
Ended == (0..(next_id - 1)) \ clients

\* C20: when the reader of connection pid ends, pid leaves the client table
\* and the player store in that critical section, every remaining client is
\* sent player_left for pid exactly once, followed by one lobby_update
\* (without pid) if and only if the match has not started; nothing else
\* of the players changes.  A connection whose reader has ended never
\* returns to the client table or to the store.
C20_ReaderEnd ==
    [][/\ op' = "disconnect" =>
            \E pid \in clients :
               /\ clients' = clients \ {pid}
               /\ players' = SelectSeq(players, LAMBDA p : p.player_id # pid)
               /\ game_started' = game_started
               /\ \A j \in 1..Len(out') : out'[j].to = clients'
               /\ IF clients' = {} THEN out' = <<>>
                  ELSE IF game_started
                  THEN /\ Len(out') = 1
                       /\ out'[1].type = "player_left"
                       /\ out'[1].player_id = pid
                  ELSE /\ Len(out') = 2
                       /\ out'[1].type = "player_left"
                       /\ out'[1].player_id = pid
                       /\ out'[2].type = "lobby_update"
                       /\ \A i \in 1..Len(out'[2].players) :
                             out'[2].players[i].player_id # pid
       /\ \A pid \in Ended : pid \in Ended' /\ ~HasP(players', pid)]_vars

\* the reader of a registered player has ended during the match: the player
\* is gone and the clients left were sent player_left and no lobby_update
C20_Witness ==
    /\ op = "disconnect"
    /\ game_started
    /\ Len(players) = 1
    /\ \E pid \in Ended :
          /\ ~HasP(players, pid)
          /\ Len(out) = 1
          /\ out[1].type = "player_left"
          /\ out[1].player_id = pid
          /\ out[1].to = clients
          /\ clients # {}

\* C18: a line that is not valid JSON, and a JSON object whose type is
\* unknown or absent, are dropped silently: the server state is unchanged,
\* nothing is sent and the reader stays in its loop.
C18_DroppedSilently ==
    [][op' \in {"not_utf8", "not_json", "no_type", "unknown_type"} =>
         /\ UNCHANGED <<players, clients, projectiles, power_ups, dropped_weapons,
                        objects, next_id, next_proj_id, next_drop_id, game_over,
                        game_started, team_kills>>
         /\ out' = <<>>
         /\ raised' = raised]_vars

\* C19: for a line that is JSON but no object, or a message whose fields have
\* the wrong type, process_message returns normally: the reader stays in its
\* loop, the connection stays open and no player leaves the store.
C19_NeverRaises ==
    [][op' \in {"not_object", "team_id", "state_y", "drop_id", "weapon_id"} =>
         /\ raised' = raised
         /\ clients' = clients
         /\ \A i \in 1..Len(players) : HasP(players', players[i].player_id)]_vars

\* the entity stores, the counters and the flags of the server
Stores ==
    <<players, projectiles, power_ups, dropped_weapons, objects, team_kills,
      game_started, game_over, next_proj_id, next_drop_id, clients, next_id>>

\* the step is a message other than join from connection pid
MessageOf(pid) ==
    \/ \E tid \in -1..NUM_TEAMS : SelectTeam(pid, tid)
    \/ \E r \in BOOLEAN : Ready(pid, r, LobbyRnd)
    \/ \E st \in RangeStates : State(pid, st)
    \/ FellOff(pid)
    \/ \E d \in (DOMAIN dropped_weapons) \cup {next_drop_id} : PickWeapon(pid, d)
    \/ \E f \in FacingInputs : Throw(pid, f)
    \/ \E w \in WeaponInputs : BuyWeapon(pid, w)

\* C21: for a connection whose id is not in the player store, every message
\* other than join is a no-op: the stores and the flags are unchanged, nothing
\* is sent and the reader stays in its loop.
C21_UnknownSenderNoOp ==
    [][\A pid \in ConnIds :
          ~HasP(players, pid) =>
             \/ UNCHANGED Stores /\ out' = <<>> /\ raised' = raised
             \/ ~MessageOf(pid)]_vars

\* connection 2 has no player and has sent throw in the match: both players
\* could have shot, and there is no projectile
C21_Witness ==
    /\ op = "throw"
    /\ game_started
    /\ 2 \in clients
    /\ ~HasP(players, 2)
    /\ projectiles = <<>>
    /\ next_proj_id = 0
    /\ \A i \in 1..Len(players) : players[i].alive /\ players[i].reload_until <= now


\* C22: message dispatch, player removal and a pass of the tick exclude each
\* other: while world_broadcast_loop holds the lock only its own statements
\* run; every world snapshot is sent by the last statement of a pass, and it
\* shows exactly the state the five tick functions, run back to back, make of
\* the server the pass found, so no snapshot shows a part of a tick or a
\* message's effect from inside it.
C22_TickAtomic ==
    [][/\ tick_pc # 0 => op' \in {"tick", "tick_k"}
       /\ At(out', "world") # {} => tick_pc = 6 /\ tick_pc' = 0
       /\ tick_pc = 6 =>
             LET t == tick_body(tick_from.s, tick_from.rnd)
             IN  /\ Server' = [t EXCEPT !.out = <<>>]
                 /\ out' = <<t.out[Len(t.out)]>>
                 /\ out' = broadcast(Server', build_world_msg(Server')).out]_vars

\* a snapshot was sent by a pass that respawned a player (second statement)
\* and moved a projectile thrown just before the pass (third statement)
C22_Witness ==
    /\ op = "tick"
    /\ tick_pc = 0
    /\ At(out, "world") # {}
    /\ msgs > 0
    /\ \E i \in 1..Len(players) : players[i].shield_until = now + RESPAWN_SHIELD
    /\ \E id \in DOMAIN projectiles : id > 40 /\ projectiles[id].dist > 0


\* C23: the team count given at the launch is the range of team selection:
\* welcome reports it as num_teams, and select_team sets the team for the
\* ids 0..N-1 and for no other id.
C23_LaunchTeamCount ==
    [][/\ \A j \in At(out', "welcome") : out'[j].num_teams = launch_teams
       /\ \A pid \in ConnIds, tid \in -1..NUM_TEAMS :
             \/ ~HasP(players, pid)
             \/ ~SelectTeam(pid, tid)
             \/ GetP(players', pid).team_id =
                   IF 0 <= tid /\ tid < launch_teams
                   THEN tid ELSE GetP(players, pid).team_id]_vars


\* C24: in the lobby select_team with a team index in 0..NUM_TEAMS-1 sets
\* the player's team_id and resets ready; with any other index it leaves
\* team_id and ready as they were.  A ready message of a player without a
\* team (team_id = -1) leaves the ready flag as it was and starts no match.
C24_TeamSelection ==
    [][/\ \A pid \in ConnIds, tid \in -1..NUM_TEAMS :
             (~game_started /\ HasP(players, pid)) =>
                \/ LET p == GetP(players, pid)
                       q == GetP(players', pid)
                   IN  IF 0 <= tid /\ tid < NUM_TEAMS
                       THEN q.team_id = tid /\ ~q.ready
                       ELSE q.team_id = p.team_id /\ q.ready = p.ready
                \/ ~SelectTeam(pid, tid)
       /\ \A pid \in ConnIds, r \in BOOLEAN :
             (HasP(players, pid) /\ GetP(players, pid).team_id = -1) =>
                \/ /\ GetP(players', pid).ready = GetP(players, pid).ready
                   /\ game_started' = game_started
                \/ ~Ready(pid, r, LobbyRnd)]_vars

\* in the lobby a select_team put a player into the last team, not ready,
\* next to a player who has a team and is ready; the lobby was told
C24_Witness ==
    /\ op = "select_team"
    /\ ~game_started
    /\ At(out, "lobby_update") # {}
    /\ \E i, j \in 1..Len(players) :
          /\ players[i].team_id = NUM_TEAMS - 1 /\ ~players[i].ready
          /\ players[j].team_id = 0 /\ players[j].ready


\* everything the server holds except the players
Others ==
    <<projectiles, power_ups, dropped_weapons, objects, team_kills,
      game_started, game_over, next_proj_id, next_drop_id, clients, next_id>>

\* a player without the six fields a state message carries
Rest(p) ==
    [p EXCEPT !.x = 0, !.y = 0, !.vx = 0, !.vy = 0, !.on_ground = FALSE,
              !.facing = "right"]

\* C25: a state message changes no field of any player while the match has
\* not started or when its sender is dead; an accepted one gives the sender
\* the message's x, y, vx, vy, on_ground and facing and changes no other
\* field of the sender, no other player and no other entity; nothing is sent.
C25_StateOnlyMoves ==
    [][op' = "state" =>
          \A pid \in ConnIds, st \in RangeStates :
             \/ /\ UNCHANGED Others
                /\ out' = <<>>
                /\ IF game_started /\ HasP(players, pid) /\ GetP(players, pid).alive
                   THEN /\ Len(players') = Len(players)
                        /\ \A i \in 1..Len(players) :
                              IF players[i].player_id = pid
                              THEN /\ Rest(players'[i]) = Rest(players[i])
                                   /\ players'[i].x = st.x
                                   /\ players'[i].y = st.y
                                   /\ players'[i].vx = st.vx
                                   /\ players'[i].vy = st.vy
                                   /\ players'[i].on_ground = st.on_ground
                                   /\ players'[i].facing = st.facing
                              ELSE players'[i] = players[i]
                   ELSE players' = players
             \/ ~State(pid, st)]_vars

\* a living player's state message was taken (x = 1140) next to a dead player
C25_Witness ==
    /\ op = "state"
    /\ game_started
    /\ \E i, j \in 1..Len(players) :
          /\ players[i].alive /\ players[i].x = 1140 /\ players[i].hp = 20
          /\ ~players[j].alive /\ players[j].x = 130


\* C26: a throw before the match, of a dead player or while now < reload_until
\* spawns nothing, changes nothing and sends nothing.  An accepted throw adds
\* exactly the weapon's pellet count of projectiles, with ids from
\* next_proj_id on (above every id used so far), the owner's id and team and
\* dist 0, keeps the projectiles there were, and sets reload_until to now +
\* reload_time, times 0.33 while now < rapid_fire_until.
C26_ThrowGated ==
    [][op' = "throw" =>
          \A pid \in ConnIds, f \in FacingInputs :
             \/ IF /\ game_started
                   /\ HasP(players, pid)
                   /\ GetP(players, pid).alive
                   /\ now >= GetP(players, pid).reload_until
                THEN LET p   == GetP(players, pid)
                         w   == WeaponOf(p.weapon)
                         new == (DOMAIN projectiles') \ (DOMAIN projectiles)
                     IN  /\ Cardinality(new) = w.pellets
                         /\ new = next_proj_id..(next_proj_id' - 1)
                         /\ \A id \in DOMAIN projectiles :
                               /\ id < next_proj_id
                               /\ id \in DOMAIN projectiles'
                               /\ projectiles'[id] = projectiles[id]
                         /\ \A id \in new :
                               /\ projectiles'[id].proj_id = id
                               /\ projectiles'[id].owner_id = pid
                               /\ projectiles'[id].team_id = p.team_id
                               /\ projectiles'[id].dist = 0
                         /\ GetP(players', pid).reload_until =
                               now + IF now < p.rapid_fire_until
                                     THEN (w.reload_time * 33) \div 100
                                     ELSE w.reload_time
                         /\ out' = <<>>
                ELSE UNCHANGED Stores /\ out' = <<>>
             \/ ~Throw(pid, f)]_vars

\* the shotgun was thrown inside the rapid-fire window: its pellets are in
\* the air and the reload is a third of the shotgun's
C26_Witness ==
    /\ op = "throw"
    /\ game_started
    /\ \E i \in 1..Len(players) :
          /\ players[i].weapon = "shotgun"
          /\ now < players[i].rapid_fire_until
          /\ players[i].reload_until = now + (WEAPONS["shotgun"].reload_time * 33) \div 100
          /\ Cardinality({id \in DOMAIN projectiles :
                             projectiles[id].owner_id = players[i].player_id
                             /\ projectiles[id].weapon_id = "shotgun"})
                = WEAPONS["shotgun"].pellets


\* twice the distance, squared, from the centre of player p to drop d
Reach2(p, d) ==
    (2 * p.x - 2 * d.x) * (2 * p.x - 2 * d.x)
      + (2 * p.y + PLAYER_H - 2 * d.y) * (2 * p.y + PLAYER_H - 2 * d.y)

\* C27: pick_weapon hands a drop over exactly when the match runs, the sender
\* is alive, the drop exists, its pickup_delay is <= 0 and the player's
\* centre is at most 50 px from it: the drop is removed, the player's weapon
\* becomes the drop's and one weapon_pickup goes to everyone.  In every other
\* case nothing changes and nothing is sent.
C27_PickWeapon ==
    [][op' = "pick_weapon" =>
          \A pid \in ConnIds, d \in (DOMAIN dropped_weapons) \cup {next_drop_id} :
             \/ IF /\ game_started
                   /\ HasP(players, pid)
                   /\ GetP(players, pid).alive
                   /\ d \in DOMAIN dropped_weapons
                   /\ dropped_weapons[d].pickup_delay <= 0
                   /\ Reach2(GetP(players, pid), dropped_weapons[d]) <= 4 * 50 * 50
                THEN /\ DOMAIN dropped_weapons' = (DOMAIN dropped_weapons) \ {d}
                     /\ \A e \in DOMAIN dropped_weapons' :
                           dropped_weapons'[e] = dropped_weapons[e]
                     /\ players' = [players EXCEPT ![PIdx(players, pid)].weapon =
                                                      dropped_weapons[d].weapon_id]
                     /\ out' = <<[type |-> "weapon_pickup", drop_id |-> d,
                                  player_id |-> pid,
                                  weapon_id |-> dropped_weapons[d].weapon_id,
                                  to |-> clients]>>
                     /\ UNCHANGED <<projectiles, power_ups, objects, team_kills,
                                    game_started, game_over, next_proj_id,
                                    next_drop_id, clients, next_id>>
                ELSE UNCHANGED Stores /\ out' = <<>>
             \/ ~PickWeapon(pid, d)]_vars

\* the drop that lies exactly 50 px from the player was picked up
C27_Witness ==
    /\ op = "pick_weapon"
    /\ At(out, "weapon_pickup") # {}
    /\ out[1].drop_id = 2
    /\ 2 \notin DOMAIN dropped_weapons
    /\ GetP(players, out[1].player_id).weapon = "sniper"
    /\ GetP(players, out[1].player_id).x + 50 = 150


\* this step killed exactly the players at the indices F, each by the
\* environment: dead, hp 0, respawn timer RESPAWN_DELAY, one player_killed
\* with killer_id -1 each; coins, kills and the team counters are as before
Fallen(F) ==
    /\ Len(players') = Len(players)
    /\ \A i \in 1..Len(players) :
          /\ players'[i].coins = players[i].coins
          /\ players'[i].kills = players[i].kills
          /\ IF i \in F
             THEN /\ ~players'[i].alive
                  /\ players'[i].hp = 0
                  /\ players'[i].respawn_timer = RESPAWN_DELAY
             ELSE players'[i] = players[i]
    /\ team_kills' = team_kills
    /\ Cardinality(At(out', "player_killed")) = Cardinality(F)
    /\ \A j \in At(out', "player_killed") :
          /\ out'[j].killer_id = -1
          /\ out'[j].to = clients
          /\ \E i \in F : out'[j].victim_id = players[i].player_id
    /\ \A i \in F : \E j \in At(out', "player_killed") :
          out'[j].victim_id = players[i].player_id

\* C28: a fell_off message of a living player during a match, and the fall
\* check of the tick for every living player with y > 450, shielded or not,
\* kill the player by the environment: dead, hp 0, respawn timer running,
\* player_killed with killer_id -1, no coins, kills or team counter changed.
\* For a dead or unknown player both do nothing.
C28_EnvironmentKill ==
    [][/\ op' = "fell_off" =>
             \A pid \in ConnIds :
                \/ IF game_started /\ HasP(players, pid) /\ GetP(players, pid).alive
                   THEN Fallen({PIdx(players, pid)})
                   ELSE UNCHANGED Stores /\ out' = <<>>
                \/ ~FellOff(pid)
       /\ tick_pc = 1 =>
             Fallen({i \in 1..Len(players) : players[i].alive /\ players[i].y > 450})]_vars

\* the fall check of a tick has just killed a player below the map whose
\* spawn shield was still up
C28_Witness ==
    /\ tick_pc = 2
    /\ At(out, "player_killed") # {}
    /\ \E i \in 1..Len(players) :
          /\ ~players[i].alive
          /\ players[i].y > 450
          /\ players[i].respawn_timer = RESPAWN_DELAY
          /\ now < players[i].shield_until


\* the step leaves the server as s, whatever s sent
Leaves(s) == Server' = [s EXCEPT !.out = <<>>]

\* C29: a pass of the tick starts only while game_started holds and a player
\* is registered; in the lobby or without players the loop changes nothing,
\* advances no timer and sends no snapshot.  Inside a pass the statements
\* run in the order fall check, respawn countdown, projectiles, power-ups,
\* dropped weapons, and then exactly one world message goes out, which ends
\* the pass.
C29_TickOrder ==
    [][/\ (tick_pc = 0 /\ tick_pc' # 0) => (game_started /\ Len(players) > 0)
       /\ (op' = "tick_0" /\ ~(game_started /\ Len(players) > 0)) =>
             /\ UNCHANGED Stores
             /\ now' = now
             /\ out' = <<>>
             /\ tick_pc' = 0
       /\ (op' = "tick_0" /\ game_started /\ Len(players) > 0) =>
             UNCHANGED Stores /\ out' = <<>> /\ tick_pc' = 1
       /\ tick_pc = 1 => Leaves(tick_fall_deaths(Server)) /\ tick_pc' = 2
       /\ tick_pc = 2 => Leaves(tick_respawns(Server, tick_from.rnd)) /\ tick_pc' = 3
       /\ tick_pc = 3 => Leaves(tick_projectiles(Server, tick_from.rnd)) /\ tick_pc' = 4
       /\ tick_pc = 4 => Leaves(tick_power_ups(Server, tick_from.rnd)) /\ tick_pc' = 5
       /\ tick_pc = 5 => Leaves(tick_dropped_weapons(Server)) /\ tick_pc' = 6
       /\ tick_pc \in 1..5 => At(out', "world") = {}
       /\ tick_pc = 6 =>
             /\ Leaves(Server)
             /\ Len(out') = 1
             /\ out'[1].type = "world"
             /\ out'[1].to = clients
             /\ tick_pc' = 0]_vars

\* a pass is over and its snapshot is out; the player whom the fall check of
\* this pass killed has had the respawn countdown of the same pass
C29_Witness ==
    /\ op = "tick"
    /\ tick_pc = 0
    /\ Len(out) = 1
    /\ out[1].type = "world"
    /\ \E i \in 1..Len(players) :
          /\ ~players[i].alive
          /\ players[i].y > 450
          /\ players[i].respawn_timer = RESPAWN_DELAY - TickMs


\* the positions rand_player_pos can return
SpawnPositions == {rand_player_pos(f) : f \in 1..Len(VALID_FLOOR)}

\* C30: while the tick keeps running and the player stays registered, a dead
\* player is respawned in the end.  The respawn countdown of a pass takes one
\* tick off the timer of every dead player; the player whose timer is used
\* up becomes alive with hp PLAYER_MAX_HP, no velocity, a spawn position, the
\* respawn shield, the rapid-fire window cleared, the coins and the (pistol)
\* weapon it had, and exactly one respawn event goes to everyone; a player
\* whose timer is not used up stays dead, and nobody else is touched.
C30_Respawn ==
    /\ \A pid \in {0, 1} :
          (HasP(players, pid) /\ ~GetP(players, pid).alive)
             ~> (~HasP(players, pid) \/ GetP(players, pid).alive)
    /\ [][tick_pc = 2 =>
             /\ Len(players') = Len(players)
             /\ \A i \in 1..Len(players) :
                   LET p  == players[i]
                       q  == players'[i]
                       ev == {j \in At(out', "respawn") : out'[j].player_id = p.player_id}
                   IN  IF ~p.alive /\ p.respawn_timer > 0
                       THEN IF p.respawn_timer <= TickMs
                            THEN /\ q = [p EXCEPT !.alive = TRUE, !.hp = PLAYER_MAX_HP,
                                                  !.vx = 0, !.vy = 0,
                                                  !.x = q.x, !.y = q.y,
                                                  !.respawn_timer = 0,
                                                  !.rapid_fire_until = 0,
                                                  !.shield_until = now + RESPAWN_SHIELD]
                                 /\ <<q.x, q.y>> \in SpawnPositions
                                 /\ q.weapon = "pistol"
                                 /\ Cardinality(ev) = 1
                                 /\ \A j \in ev : out'[j].to = clients
                            ELSE /\ q = [p EXCEPT !.respawn_timer = @ - TickMs]
                                 /\ ev = {}
                       ELSE q = p /\ ev = {}
             /\ UNCHANGED Others]_vars

\* the player who fell at the start has waited the whole delay and is back:
\* alive, healed, shielded from now on, without rapid fire, with its pistol
C30_Witness ==
    /\ tick_pc = 3
    /\ now = RESPAWN_DELAY
    /\ At(out, "respawn") # {}
    /\ HasP(players, 1)
    /\ GetP(players, 1).alive
    /\ GetP(players, 1).hp = PLAYER_MAX_HP
    /\ GetP(players, 1).shield_until = now + RESPAWN_SHIELD
    /\ GetP(players, 1).rapid_fire_until = 0
    /\ GetP(players, 1).weapon = "pistol"
    /\ dropped_weapons # <<>>


\* the player_killed messages of log that name a projectile's owner
KillsIn(log) == {j \in At(log, "player_killed") : log[j].killer_id # -1}

\* C31: a lethal projectile hit is processed inside the tick, in this order:
\* the hit is announced with hp 0; the victim is dead with hp 0 and the
\* respawn timer set and holds the pistol; a weapon_dropped follows iff the
\* victim held another weapon; a killer still in the store gets
\* KILL_COIN_REWARD coins, one kill, one more kill for its team and a
\* coins_update; player_killed follows.  (That the win test comes next is
\* C2.)  A killer who has left gets nothing and no counter changes.  Every
\* dead player holds the pistol.
C31_DeathProcessing ==
    /\ [](\A i \in 1..Len(players) : ~players[i].alive => players[i].weapon = "pistol")
    /\ [][op' = "tick" =>
             /\ \A j \in KillsIn(out') :
                   LET v    == out'[j].victim_id
                       k    == out'[j].killer_id
                       held == GetP(players, v).weapon
                       c    == IF HasP(players, k) THEN 1 ELSE 0
                       d    == IF held # "pistol" THEN 1 ELSE 0
                       q    == GetP(players', v)
                   IN  /\ ~q.alive
                       /\ q.hp = 0
                       /\ q.respawn_timer = RESPAWN_DELAY
                       /\ q.weapon = "pistol"
                       /\ j - c - d - 1 >= 1
                       /\ out'[j - c - d - 1].type = "projectile_hit"
                       /\ out'[j - c - d - 1].victim_id = v
                       /\ out'[j - c - d - 1].hp = 0
                       /\ d = 1 =>
                             /\ out'[j - c - 1].type = "weapon_dropped"
                             /\ out'[j - c - 1].weapon_id = held
                             /\ out'[j - c - 1].drop_id \in DOMAIN dropped_weapons'
                             /\ out'[j - c - 1].drop_id \notin DOMAIN dropped_weapons
                       /\ c = 1 =>
                             /\ out'[j - 1].type = "coins_update"
                             /\ out'[j - 1].to = {k}
             /\ \A i \in 1..Len(players) :
                   LET n == Cardinality({j \in KillsIn(out') :
                                            out'[j].killer_id = players[i].player_id})
                   IN  /\ players'[i].kills = players[i].kills + n
                       /\ At(out', "object_destroyed") = {} =>
                             players'[i].coins = players[i].coins + n * KILL_COIN_REWARD
             /\ \A t \in -1..(NUM_TEAMS - 1) :
                   TKGet(team_kills', t) =
                      TKGet(team_kills, t)
                        + Cardinality({j \in KillsIn(out') :
                                          /\ HasP(players, out'[j].killer_id)
                                          /\ GetP(players, out'[j].killer_id).team_id = t})]_vars

\* a bullet killed a player who held another weapon than the pistol after the
\* shooter had left: the weapon lies there, the team counters are as they
\* were at the start of the run
C31_Witness ==
    /\ op = "tick"
    /\ \E j \in KillsIn(out) :
          /\ ~HasP(players, out[j].killer_id)
          /\ out[j - 1].type = "weapon_dropped"
    /\ \A i \in 1..Len(team_kills) : team_kills[i].kills = KILL_LIMIT - 1

\* the positions of the sub-step k of projectile p in this tick
AtStep(p, k) == [p EXCEPT !.x = @ + k * PathDx(p), !.y = @ + k * PathDy(p),
                          !.dist = @ + k * PathLen(p)]

\* the eligible players whose hitbox the bullet q overlaps where it is
Covering(q, t) ==
    {i \in 1..Len(players) :
        /\ Eligible(q, players[i], t)
        /\ Overlaps(q, players[i].x, players[i].x + PLAYER_W,
                    players[i].y, players[i].y + PLAYER_H)}

\* C32: within a sub-step the checks run in the order range, world bounds,
\* player, object.  In a tick, every projectile_hit is reported at a
\* sub-step of its projectile at which the projectile is short of its range
\* and inside the world; every object_hit is reported at such a sub-step of a
\* projectile at which the bullet overlaps no eligible player; and a
\* projectile whose sub-steps reach its range leaves the store, whatever it
\* overlaps where it expires.
C32_SubStepOrder ==
    [][op' = "tick" /\ At(out', "world") # {} =>
         /\ \A j \in At(out', "projectile_hit") :
               LET p == projectiles[out'[j].proj_id]
               IN  \E k \in 1..PathSteps(p) :
                      /\ out'[j].x = AtStep(p, k).x
                      /\ out'[j].y = AtStep(p, k).y
                      /\ ~RangeExpired(AtStep(p, k))
                      /\ ~OutOfWorld(AtStep(p, k))
         /\ \A j \in At(out', "object_hit") :
               \E id \in DOMAIN projectiles :
                  \E k \in 1..PathSteps(projectiles[id]) :
                     LET q == AtStep(projectiles[id], k)
                     IN  /\ out'[j].x = q.x
                         /\ out'[j].y = q.y
                         /\ ~RangeExpired(q)
                         /\ ~OutOfWorld(q)
                         /\ Covering(q, now') = {}
         /\ \A id \in DOMAIN projectiles :
               ReachesRange(projectiles[id]) => id \notin DOMAIN projectiles']_vars

\* a tick in which the spent bullet expired inside the hitboxes of player 1
\* and of the crate behind it without a hit, and a fresh bullet of player 0
\* that reached both hitboxes in one sub-step hit the player only
C32_Witness ==
    /\ op = "tick"
    /\ SpentBullet.proj_id \notin DOMAIN projectiles
    /\ At(out, "object_hit") = {}
    /\ Cardinality(At(out, "projectile_hit")) = 1
    /\ \E j \in At(out, "projectile_hit") :
          /\ out[j].proj_id # SpentBullet.proj_id
          /\ out[j].victim_id = 1
          /\ \E o \in DOMAIN objects :
                /\ objects[o].hp = BREAKABLE_HP[objects[o].obj_type]
                /\ ObjectHit([x |-> out[j].x, y |-> out[j].y], objects[o])
    /\ Len(players) = 2
    /\ players[2].hp = PLAYER_MAX_HP - WEAPONS["pistol"].damage
    /\ LET q == AtStep(SpentBullet, 5)
       IN  /\ RangeExpired(q)
           /\ ~RangeExpired(AtStep(SpentBullet, 4))
           /\ PlayerHitAnyone([now |-> now], q, players[2])
           /\ \E o \in DOMAIN objects : ObjectHit(q, objects[o])
\* the type that follows each type in the cyclic order of the power-ups
CycleOrder ==
    [speed |-> "jump", jump |-> "shield", shield |-> "rapid_fire",
     rapid_fire |-> "double_jump", double_jump |-> "speed"]

\* C33: while the tick keeps running, an inactive power-up whose respawn
\* delay ends within the time of the run becomes active again; whenever a
\* power-up becomes active, its type is the one that follows its former type
\* in the cyclic order and its lifetime is positive; in any other step the
\* type stays as it is.
C33_PowerUpCycle ==
    /\ \A id \in 0..(NUM_POWER_UPS - 1) :
          (/\ ~power_ups[id].active
           /\ TickRuns /\ ~game_over
           /\ now + power_ups[id].respawn_timer <= CycleMs)
             ~> power_ups[id].active
    /\ [][\A id \in DOMAIN power_ups :
             LET a == power_ups[id]
                 b == power_ups'[id]
             IN  IF ~a.active /\ b.active
                 THEN /\ tick_pc = 4
                      /\ b.pu_type = CycleOrder[a.pu_type]
                      /\ b.lifetime_timer > 0
                 ELSE b.pu_type = a.pu_type]_vars

\* late in the run power-up 4, a double jump that expired and waited for its
\* respawn delay, is back as a speed power-up, and power-up 2, a shield that
\* player 0 picked up in the first pass, has been back as rapid fire
C33_Witness ==
    /\ now > (POWER_UP_RESPAWN_TIME * 6) \div 10
    /\ power_ups[4].active
    /\ power_ups[4].pu_type = "speed"
    /\ power_ups[4].lifetime_timer > 0
    /\ power_ups[2].pu_type = "rapid_fire"
    /\ Len(players) = 2
    /\ players[1].shield_until > 0
\* the step is a statement of world_broadcast_loop
TickStatement == op' \in {"tick_0", "tick_k", "tick"}

\* the step is the call of tick_dropped_weapons
DropStatement == tick_pc = 5 /\ op' = "tick_k"

\* tick_dropped_weapons counts the two timers of every drop down, removes
\* the drops whose lifetime is used up, with one weapon_gone each to everyone,
\* and touches nothing else
DropsOnlyAge ==
    DropStatement =>
       /\ UNCHANGED <<players, projectiles, power_ups, objects, team_kills,
                      game_started, game_over, next_proj_id, next_drop_id, clients,
                      next_id>>
       /\ DOMAIN dropped_weapons' \subseteq DOMAIN dropped_weapons
       /\ \A d \in DOMAIN dropped_weapons :
             LET drop == dropped_weapons[d]
                 gone == {j \in At(out', "weapon_gone") : out'[j].drop_id = d}
             IN  IF drop.lifetime > TickMs
                 THEN /\ d \in DOMAIN dropped_weapons'
                      /\ dropped_weapons'[d] =
                             [drop EXCEPT !.lifetime = @ - TickMs,
                                          !.pickup_delay = @ - TickMs]
                      /\ gone = {}
                 ELSE /\ d \notin DOMAIN dropped_weapons'
                      /\ Cardinality(gone) = 1
                      /\ \A j \in gone : out'[j].to = clients
       /\ At(out', "weapon_gone") = 1..Len(out')

\* C34 (as claimed): no statement of the tick changes the weapon of a player,
\* and the dropped-weapon step only counts lifetime and pickup delay down and
\* removes the drops whose lifetime is used up, broadcasting weapon_gone.
C34_TickKeepsWeapons ==
    [][/\ TickStatement =>
            /\ Len(players') = Len(players)
            /\ \A i \in 1..Len(players) : players'[i].weapon = players[i].weapon
       /\ DropsOnlyAge]_vars

\* C34 (amended): no statement of the tick gives a player a weapon: the
\* weapon of a player changes in a tick only when the player is killed in it
\* holding another weapon than the pistol, which it drops for the pistol.
\* The dropped-weapon step changes no player, whoever overlaps a drop; it
\* only counts lifetime and pickup delay down and removes the drops whose
\* lifetime is used up, broadcasting weapon_gone.
C34_TickGivesNoWeapon ==
    [][/\ TickStatement =>
            /\ Len(players') = Len(players)
            /\ \A i \in 1..Len(players) :
                  \/ players'[i].weapon = players[i].weapon
                  \/ /\ players[i].alive
                     /\ ~players'[i].alive
                     /\ players'[i].weapon = "pistol"
                     /\ \E j \in At(out', "weapon_dropped") :
                           out'[j].weapon_id = players[i].weapon
       /\ DropsOnlyAge]_vars

\* the dropped-weapon step has just removed drop 0 and aged the others while
\* player 0, alive with its shotgun, stands in the reach of drop 2, which it
\* could pick up, and the sniper rifle that player 1 dropped when it was shot in this
\* pass lies on the ground
C34_Witness ==
    /\ tick_pc = 6
    /\ At(out, "weapon_gone") # {}
    /\ 0 \notin DOMAIN dropped_weapons
    /\ Len(players) = 2
    /\ players[1].alive
    /\ players[1].weapon = "shotgun"
    /\ 2 \in DOMAIN dropped_weapons
    /\ dropped_weapons[2].pickup_delay <= 0
    /\ ~PickTooFar(players[1], dropped_weapons[2])
    /\ ~players[2].alive
    /\ players[2].weapon = "pistol"
    /\ \E d \in DOMAIN dropped_weapons :
          d >= 4 /\ dropped_weapons[d].weapon_id = "sniper"
\* the coins of the object_destroyed messages of log from position j on that
\* are followed by a coins_update for the player pid
RECURSIVE BonusOf(_, _, _)
BonusOf(log, pid, j) ==
    IF j >= Len(log) THEN 0
    ELSE BonusOf(log, pid, j + 1)
           + (IF /\ log[j].type = "object_destroyed"
                 /\ log[j + 1].type = "coins_update"
                 /\ log[j + 1].to = {pid}
              THEN log[j].coins ELSE 0)

\* the owners of the projectiles that can have sent the object_hit m
ShootersOf(m) ==
    {projectiles[id].owner_id : id \in {q \in DOMAIN projectiles : OnPath(projectiles[q], m)}}

\* C35: a destroyed object stays as it is in every step, no object_hit and
\* no object_destroyed names it any more, and an object is alive in the
\* store exactly while its hp is above 0.  In a tick, an object whose hp
\* gets to 0 or below becomes not alive and is named by exactly one
\* object_destroyed, which follows its object_hit and carries a coin bonus
\* within the range of its type; the bonus is reported by a coins_update to
\* the shooter that follows object_destroyed if the shooter is in the store,
\* and by none otherwise, and the coins of every player rise by its kill
\* rewards and its reported bonuses.
C35_DestroyedForGood ==
    /\ [](\A o \in DOMAIN objects : objects[o].alive <=> objects[o].hp > 0)
    /\ [][/\ DOMAIN objects' = DOMAIN objects
          /\ \A o \in DOMAIN objects :
                (~objects[o].alive) =>
                   (/\ objects'[o] = objects[o]
                    /\ \A j \in At(out', "object_hit") \cup At(out', "object_destroyed") :
                          out'[j].obj_id # o)
          /\ (op' = "tick" /\ At(out', "world") # {}) =>
                /\ \A o \in DOMAIN objects :
                      LET ds == {j \in At(out', "object_destroyed") : out'[j].obj_id = o}
                          t  == objects[o].obj_type
                      IN  IF objects[o].alive /\ ~objects'[o].alive
                          THEN /\ Cardinality(ds) = 1
                               /\ \A j \in ds :
                                     /\ j > 1
                                     /\ out'[j - 1].type = "object_hit"
                                     /\ out'[j - 1].obj_id = o
                                     /\ out'[j].coins >= BREAKABLE_COIN_RANGE[t][1]
                                     /\ out'[j].coins <= BREAKABLE_COIN_RANGE[t][2]
                                     /\ \A s \in ShootersOf(out'[j - 1]) :
                                           IF HasP(players, s)
                                           THEN /\ out'[j + 1].type = "coins_update"
                                                /\ out'[j + 1].to = {s}
                                                /\ out'[j + 1].coins = GetP(players', s).coins
                                           ELSE out'[j + 1].type # "coins_update"
                          ELSE ds = {}
                /\ Len(players') = Len(players)
                /\ \A i \in 1..Len(players) :
                      players'[i].coins =
                          players[i].coins
                            + KILL_COIN_REWARD * (players'[i].kills - players[i].kills)
                            + BonusOf(out', players[i].player_id, 1)]_vars

\* a tick that destroyed both crates: the bonus of the first went to player
\* 0, the bonus of the second, shot by the player who has left, to nobody;
\* the bullet that came behind the first is inside the hitbox of the
\* destroyed crate and still flies
C35_Witness ==
    /\ op = "tick"
    /\ Cardinality(At(out, "object_destroyed")) = 2
    /\ Cardinality(At(out, "coins_update")) = 1
    /\ \E j \in At(out, "coins_update") : out[j].to = {0}
    /\ 42 \in DOMAIN projectiles
    /\ \E o \in DOMAIN objects :
          /\ ~objects[o].alive
          /\ ObjectHitDestroyed(projectiles[42], objects[o])
    /\ ~HasP(players, 2)
\* the messages of log that report the end of drop d
EndsOf(d, log) ==
    {j \in At(log, "weapon_pickup") \cup At(log, "weapon_gone") : log[j].drop_id = d}

\* C36: each dropped weapon ends in one way.  A step reports the end of a
\* drop (weapon_pickup or weapon_gone) exactly when it removes the drop from
\* the store, with one message; a removed drop never comes back, new drops
\* taking ids from next_drop_id on, which never decreases; so each drop id is
\* named by at most one weapon_pickup or weapon_gone in a run.  A
\* weapon_pickup comes from a pick_weapon message and gives the weapon of the
\* drop to the player it names and to nobody else.  A pick_weapon for a drop
\* that is no longer in the store, picked up or expired before, changes
\* nothing and sends nothing.
C36_DropEndsOnce ==
    [][/\ next_drop_id' >= next_drop_id
       /\ \A d \in 0..(next_drop_id' - 1) :
             /\ Cardinality(EndsOf(d, out')) <= 1
             /\ EndsOf(d, out') # {}
                   <=> (d \in DOMAIN dropped_weapons /\ d \notin DOMAIN dropped_weapons')
             /\ (d \in DOMAIN dropped_weapons' /\ d \notin DOMAIN dropped_weapons)
                   => d >= next_drop_id
       /\ \A j \in At(out', "weapon_pickup") :
             /\ op' = "pick_weapon"
             /\ Len(players') = Len(players)
             /\ \A i \in 1..Len(players) :
                   players'[i] =
                       IF players[i].player_id = out'[j].player_id
                       THEN [players[i] EXCEPT
                               !.weapon = dropped_weapons[out'[j].drop_id].weapon_id]
                       ELSE players[i]
       /\ \A j \in At(out', "weapon_gone") : DropStatement
       /\ op' = "pick_weapon" =>
             \A pid \in ConnIds, d \in (0..next_drop_id) \ DOMAIN dropped_weapons :
                \/ UNCHANGED Stores /\ out' = <<>>
                \/ ~PickWeapon(pid, d)]_vars

\* two pick_weapon messages have been processed: player 1 holds the automatic
\* rifle of drop 0, which is gone, player 0 holds its shotgun, and the second
\* message changed nothing
C36_Witness ==
    /\ op = "pick_weapon"
    /\ out = <<>>
    /\ msgs = 2
    /\ 0 \notin DOMAIN dropped_weapons
    /\ DOMAIN dropped_weapons = {1, 2, 3}
    /\ Len(players) = 2
    /\ players[1].weapon = "shotgun"
    /\ players[2].weapon = "auto"
\* C37 (as claimed): the coins of a player are never negative; they go down
\* only by a buy_weapon that is accepted (weapon_bought), by the price of the
\* weapon, which the player could pay; and they go up only in a tick, by the
\* kill rewards and the object bonuses of the player.
C37_CoinsLedger ==
    /\ [](\A i \in 1..Len(players) : players[i].coins >= 0)
    /\ [][\A i \in 1..Len(players) :
             HasP(players', players[i].player_id) =>
                LET p == players[i]
                    q == GetP(players', p.player_id)
                IN  /\ q.coins < p.coins =>
                          /\ op' = "buy_weapon"
                          /\ \E j \in At(out', "weapon_bought") :
                                /\ out'[j].to = {p.player_id}
                                /\ p.coins >= WEAPONS[out'[j].weapon_id].price
                                /\ q.coins = p.coins - WEAPONS[out'[j].weapon_id].price
                    /\ q.coins > p.coins =>
                          /\ op' \in {"tick", "tick_k"}
                          /\ q.coins = p.coins + KILL_COIN_REWARD * (q.kills - p.kills)
                                          + BonusOf(out', p.player_id, 1)]_vars
\* C38 (as claimed): in every state and in every world snapshot the hp of
\* each breakable object lies between 0 and its max_hp, and the object is
\* alive exactly when its hp is above 0.
C38_ObjectHpInRange ==
    /\ \A o \in DOMAIN objects :
          /\ objects[o].hp >= 0
          /\ objects[o].hp <= objects[o].max_hp
          /\ objects[o].alive <=> objects[o].hp > 0
    /\ \A j \in At(out, "world") : \A o \in DOMAIN out[j].objects :
          /\ out[j].objects[o].hp >= 0
          /\ out[j].objects[o].hp <= out[j].objects[o].max_hp
          /\ out[j].objects[o].alive <=> out[j].objects[o].hp > 0
\* C39: the match starts only in the critical section of a ready message
\* and once: game_started becomes true only in such a step, no other step
\* changes it, it never becomes false again, and start_game, which sends
\* game_start, runs only in the step that makes game_started true.  A
\* disconnect or a select_team that leaves two or more players, all with a
\* team and ready, starts nothing.
C39_StartOnce ==
    [][/\ game_started => game_started'
       /\ op' # "ready" => game_started' = game_started
       /\ At(out', "game_start") # {}
             => (~game_started /\ game_started' /\ op' = "ready")
       /\ game_started => UNCHANGED objects]_vars

\* in the lobby, after a player who was not ready has left and a ready
\* player has sent a select_team that was refused, two or more players are
\* registered, all with a team and ready, and the match has not started
C39_Witness ==
    /\ op = "select_team"
    /\ ~game_started
    /\ Len(players) >= 2
    /\ AllReady(players)
\* C40 (as claimed): once the match has started and every player has left,
\* the server stays started and game_over stays unset for ever; no tick runs:
\* the clock, the projectiles, the power-ups, the dropped weapons and the
\* objects stay as they are and no world message is sent; every accept closes
\* the new connection.
C40_DesertedForever ==
    /\ [](game_started /\ ~game_over)
    /\ [][/\ now' = now
          /\ UNCHANGED <<projectiles, power_ups, dropped_weapons, objects>>
          /\ At(out', "world") = {}
          /\ (op' = "accept" => UNCHANGED <<clients, next_id>>)]_vars
====
